---- MODULE Spec2Model ----
(***************************************************************************)
(* storymaker: the job lifecycle (job-store.ts, web-service.ts) and the    *)
(* frame-accurate recorder (recorder.ts) as one state machine.             *)
(*                                                                         *)
(* Time is an integer clock `now` (Date.now()); every await of the source  *)
(* is a point where other tasks may run, so every awaited call is a step.  *)
(***************************************************************************)
EXTENDS Integers, Sequences, FiniteSets, TLC

\* ----------------------------------------------------------------- bounds
MaxRecords == 2     \* job ids the store can hold
MaxClock == 2       \* the clock runs 0..MaxClock
MaxAge == 1         \* cleanup is called with maxAgeMs in 0..MaxAge
MaxBridge == 1      \* un-awaited progress writes in flight per job
DurationMs == 40    \* the recording's duration (the default is 10000)
MaxCalls == 4       \* JobStore calls made through the interface in one run

\* ------------------------------------------------------ program constants
FrameRate == 25

\* recordStory's options as processVideoJob leaves them: the defaults
DefaultOptions == [duration |-> DurationMs, frameRate |-> FrameRate]

JobIds == 1..MaxRecords
None == "none"
NoPct == -1
Backends == {"memory", "azure"}
Terminal == {"completed", "failed"}

\* error messages
ReadyTimeoutMsg == "Timeout waiting for page ready (30s)"
FFmpegFailedMsg == "FFmpeg failed: <stderr>"
ShellErrorMsg == "Failed with exit code 1"
RecorderErrMsg == "recorder step failed"
StoreErrMsg == "job store request failed"
PrepErrMsg == "mkdir failed"

\* ------------------------------------------------------------- job records
\* handleCreateVideo's required fields, which are the fields of Job.request
Required == {"site", "slug", "postType", "template"}

\* the request of the jobs followed
ValidBody == [key \in Required |-> "aje"]

NoRequest == [key \in Required |-> None]

NoResult == [url |-> None, thumbnailUrl |-> None]
\* the value get() maps to null: no record under this id
Absent ==
  [id |-> 0, status |-> "absent", request |-> NoRequest, progress |-> None,
   progressPercent |-> NoPct, result |-> NoResult, error |-> None,
   createdAt |-> 0, updatedAt |-> 0]

IsAbsent(r) == r.status = "absent"

\* handleCreateVideo's descriptor completed by create(): createdAt = updatedAt = now
NewJob(id, t) ==
  [id |-> id, status |-> "pending", request |-> ValidBody, progress |-> None,
   progressPercent |-> NoPct, result |-> NoResult, error |-> None,
   createdAt |-> t, updatedAt |-> t]

\* { ...job, ...updates, updatedAt: new Date() }
Merge(job, updates, t) ==
  [f \in DOMAIN job |->
     IF f = "updatedAt" THEN t
     ELSE IF f \in DOMAIN updates THEN updates[f] ELSE job[f]]

\* JSON.stringify / JSON.parse of result: an undefined thumbnailUrl is omitted
JsonOfResult(r) ==
  IF r.thumbnailUrl = None THEN << <<"url", r.url>> >>
  ELSE << <<"url", r.url>>, <<"thumbnailUrl", r.thumbnailUrl>> >>

ResultOfJson(s) ==
  [url |-> s[1][2],
   thumbnailUrl |-> IF Len(s) > 1 THEN s[2][2] ELSE None]

\* JSON.stringify / JSON.parse of request: the four fields as name / value
\* pairs, in the order handleCreateVideo builds the object
JsonOfRequest(r) ==
  << <<"site", r.site>>, <<"slug", r.slug>>, <<"postType", r.postType>>,
     <<"template", r.template>> >>

RequestOfJson(s) ==
  [key \in Required |->
     LET i == CHOOSE k \in 1..Len(s) : s[k][1] = key IN s[i][2]]

\* jobToEntity: scalar columns, "" for an absent field; the entity has no
\* progressPercent column
JobToEntity(job) ==
  [rowKey |-> job.id,
   status |-> job.status,
   request |-> JsonOfRequest(job.request),
   progress |-> IF job.progress = None THEN "" ELSE job.progress,
   result |-> IF job.result = NoResult THEN <<>> ELSE JsonOfResult(job.result),
   error |-> IF job.error = None THEN "" ELSE job.error,
   createdAt |-> job.createdAt,
   updatedAt |-> job.updatedAt]

\* entityToJob
EntityToJob(e) ==
  [id |-> e.rowKey,
   status |-> e.status,
   request |-> RequestOfJson(e.request),
   progress |-> IF e.progress = "" THEN None ELSE e.progress,
   progressPercent |-> NoPct,
   result |-> IF e.result = <<>> THEN NoResult ELSE ResultOfJson(e.result),
   error |-> IF e.error = "" THEN None ELSE e.error,
   createdAt |-> e.createdAt,
   updatedAt |-> e.updatedAt]

\* no record given to the codec
NoCodec == [stage |-> "idle", job |-> Absent, entity |-> Absent, decoded |-> Absent]

VARIABLES
  codec,  \* jobToEntity / entityToJob applied to one job record, step by step
  removed,  \* processVideoJob: the local files (video, thumb) it has deleted
  page,  \* the page under recording: its calls of the hooks, and the host's ready timer
  animations,  \* window.__animations and the time last passed to window.__seekTo
  sched,  \* startJobCleanup's timer, and what the scheduler has done so far
  sweeps,  \* the scheduler's cleanup passes in flight, by slot
  http,  \* the last response of the HTTP API, with the request it answered
  backend,    \* createJobStore(): which store the service runs on
  now,        \* the clock
  jobs,       \* the store: id -> Job (memory) or table entity (azure), or Absent
  created,    \* job ids handed out so far
  ppc,        \* processVideoJob: position of each job's processor
  pstage,     \* azure update in progress: "call" (before get) or "got"
  psnap,      \* azure update in progress: updatedJob, built when get returned
  caught,     \* the error message the processor's catch block holds
  videoUrl,   \* processVideoJob locals
  blobUrl,    \* what uploadVideo returned: "blob" for a URL, "null", or None when not called
  thumbUrl,
  rpc,        \* recordStory: position
  frame,      \* recordStory: the capture loop's index
  ready,      \* readyPromise resolved
  acquired,   \* recordStory: browser / page / tempDir set
  released,   \* recordStory: resources whose release call succeeded
  relFailed,  \* recordStory: resources whose release call threw
  rres,       \* recordStory: the result being returned
  raised,     \* recordStory: an awaited call of the try block has thrown
  ffmpeg,     \* how the video encoder run ended: "none", "ok", "exit", "throw"
  thumbRun,   \* how the thumbnail run ended
  bridge,     \* azure: the un-awaited onProgress updates in flight
  cl,         \* the cleanup pass in progress
  api,        \* both JobStore classes driven call by call, side by side
  owned,      \* recordStory: the handle behind browser / page / tempDir, 0 for null
  opts,       \* recordStory: the duration and frameRate of its options
  shots       \* recordStory: the seeks and screenshots done, in order

vars == <<codec, removed, page, animations, sched, sweeps, http, backend, now, jobs, created, ppc, pstage, psnap, caught, videoUrl, blobUrl,
          thumbUrl, rpc, frame, ready, acquired, released, relFailed, rres,
          raised, ffmpeg, thumbRun, bridge, cl, api, owned, opts, shots>>

procVars == <<ppc, pstage, psnap, caught, videoUrl, blobUrl, thumbUrl>>
recVars == <<rpc, frame, ready, acquired, released, relFailed, rres, raised,
            ffmpeg, thumbRun>>

\* recordStory's locals browser, page and tempDir; all null
Resources == {"browser", "page", "tempDir"}

NoHandles == [r \in Resources |-> 0]

\* ------------------------------------------------------ the page's hooks
\* calls of window.storyReady and of window.storyDone followed per recording
MaxReadyCalls == 2
MaxDoneCalls == 2

\* no call made, the 30 s timer not fired, initStory not running (ipc), the
\* hooks exposed, and no time spent in the two delays
NoPage ==
  [readyCalls |-> 0, doneCalls |-> 0, fired |-> FALSE, ipc |-> "none",
   hooks |-> TRUE, signaled |-> FALSE, started |-> FALSE, hwait |-> 0,
   pwait |-> 0]

\* the page's delay between its ready call and the start of its animations,
\* and the host's delay between the font wait and the control script, in ms
ReadyDelayMs == 50
SettleMs == 100

\* the longest a wait of the page or the host is followed, in ms
MaxWaitMs == 150

\* ------------------------------------------------------------ HTTP responses
\* a JSON body's field: absent, the empty string, or a name
FieldValues == {None, "", "aje"}

Bodies == [Required -> FieldValues]

NoBody ==
  [code |-> 0, status |-> None, progress |-> None, progressPercent |-> NoPct,
   url |-> None, thumbnailUrl |-> None, error |-> None]

NoResponse ==
  [route |-> "none", request |-> ValidBody, code |-> 0, jobId |-> 0,
   missing |-> {}, body |-> NoBody, thrown |-> FALSE]

\* 202 { jobId }
Accepted(j, body) ==
  [route |-> "create", request |-> body, code |-> 202, jobId |-> j,
   missing |-> {}, body |-> NoBody, thrown |-> FALSE]

\* 400 { success: false, error: "Missing required fields: ..." }
BadRequest(body, missing) ==
  [route |-> "create", request |-> body, code |-> 400, jobId |-> 0,
   missing |-> missing, body |-> NoBody, thrown |-> FALSE]

\* 500 { success: false, error }, from handleCreateVideo's catch block
ServerError(body) ==
  [route |-> "create", request |-> body, code |-> 500, jobId |-> 0,
   missing |-> {}, body |-> NoBody, thrown |-> FALSE]

\* what handleGetJob returned for job j
Polled(j, body) ==
  [route |-> "poll", request |-> ValidBody, code |-> body.code, jobId |-> j,
   missing |-> {}, body |-> body, thrown |-> FALSE]

\* handleGetJob's promise rejected: the handler built no response
PollRejected(j) ==
  [route |-> "poll", request |-> ValidBody, code |-> 0, jobId |-> j,
   missing |-> {}, body |-> NoBody, thrown |-> TRUE]

\* ----------------------------------------------------------- store access
\* get(id): the Job the store holds, or Absent
Get(id) ==
  IF IsAbsent(jobs[id]) THEN Absent
  ELSE IF backend = "azure" THEN EntityToJob(jobs[id]) ELSE jobs[id]

\* what the store keeps for a Job
Stored(job) == IF backend = "azure" THEN JobToEntity(job) ELSE job

\* --------------------------------------------------- processVideoJob's writes
\* a first write that reports progress and forgets the status
ProcessingFieldsWithoutStatus ==
  [progress |-> "Initializing", progressPercent |-> 10]

ProcessingFields ==
  [status |-> "processing", progress |-> "Initializing", progressPercent |-> 10]

RecordingFields == [progress |-> "Recording video", progressPercent |-> 15]

UploadingVideoFields == [progress |-> "Uploading video", progressPercent |-> 75]

UploadingThumbFields == [progress |-> "Uploading thumbnail", progressPercent |-> 90]

CompletedFields(v, t) ==
  [status |-> "completed", progress |-> None,
   result |-> [url |-> v, thumbnailUrl |-> t]]

FailedFields(err) == [status |-> "failed", progress |-> None, error |-> err]

UpdateSites ==
  {"upd10", "upd15", "upd75", "upd90", "updCompleted", "updFailed", "updCatch"}

\* the fields of the jobStore.update call job j's processor is at
SiteFields(j) ==
  CASE ppc[j] = "upd10" -> ProcessingFields
    [] ppc[j] = "upd15" -> RecordingFields
    [] ppc[j] = "upd75" -> UploadingVideoFields
    [] ppc[j] = "upd90" -> UploadingThumbFields
    [] ppc[j] = "updCompleted" -> CompletedFields(videoUrl[j], thumbUrl[j])
    [] ppc[j] = "updFailed" -> FailedFields(rres[j].error)
    [] OTHER -> FailedFields(caught[j])

\* a processor that records again once the first recording has succeeded
AfterSiteRecordsAgain(pc) ==
  CASE pc = "upd10" -> "prep"
    [] pc = "upd15" -> "callRecorder"
    [] pc = "upd75" -> "callRecorder"
    [] pc = "upd90" -> "uploadThumb"
    [] OTHER -> "done"

\* where the processor continues when that update has returned
AfterSite(pc) ==
  CASE pc = "upd10" -> "prep"
    [] pc = "upd15" -> "callRecorder"
    [] pc = "upd75" -> "upload"
    [] pc = "upd90" -> "uploadThumb"
    [] OTHER -> "done"

\* an exception inside processVideoJob's try block reaches its catch block,
\* whose own update is outside any try: there the promise rejects
ThrowTo(pc) == IF pc = "updCatch" THEN "rejected" ELSE "updCatch"

\* a table client that inserts the row when it is not there (upsertEntity)
RowThereOrNot(j) == TRUE

\* tableClient.updateEntity(entity, "Replace") replaces a row that exists;
\* for a row that does not, the service answers 404 and the call throws
RowThere(j) == ~IsAbsent(jobs[j])

\* InMemoryJobStore.update: no await inside, the whole merge is one step
MemUpdate(id, updates) ==
  IF IsAbsent(jobs[id]) THEN jobs
  ELSE [jobs EXCEPT ![id] = Merge(jobs[id], updates, now)]

\* the create-video requests Spec follows, each from its creation to the end
\* of its processor
Followed == {1}

\* handleCreateVideo, the valid request: create the job, spawn the processor
CreateVideoFor(j, body) ==
  /\ j = Cardinality(created) + 1
  /\ created' = created \cup {j}
  /\ jobs' = [jobs EXCEPT ![j] = Stored(NewJob(j, now))]
  /\ ppc' = [ppc EXCEPT ![j] = "upd10"]
  /\ http' = Accepted(j, body)
  /\ UNCHANGED <<codec, removed, page, animations, sched, sweeps, api, owned, opts, shots, backend, now, pstage, psnap, caught, videoUrl, blobUrl, thumbUrl,
                 recVars, bridge, cl>>

\* the request every client of the model's other parts sends
CreateVideo(j) == CreateVideoFor(j, ValidBody)

\* an awaited jobStore.update on the volatile store
PUpdateMem(j) ==
  /\ backend = "memory"
  /\ ppc[j] \in UpdateSites
  /\ jobs' = MemUpdate(j, SiteFields(j))
  /\ ppc' = [ppc EXCEPT ![j] = AfterSite(ppc[j])]
  /\ UNCHANGED <<codec, removed, page, animations, sched, sweeps, http, api, owned, opts, shots, backend, now, created, pstage, psnap, caught, videoUrl, blobUrl,
                 thumbUrl, recVars, bridge, cl>>

\* AzureTableJobStore.update, first half: existingJob = await this.get(id),
\* then updatedJob = {...existingJob, ...updates, updatedAt: new Date()} is
\* built before the next await
PUpdateGet(j) ==
  /\ backend = "azure"
  /\ ppc[j] \in UpdateSites
  /\ pstage[j] = "call"
  /\ IF IsAbsent(jobs[j])
       THEN /\ ppc' = [ppc EXCEPT ![j] = AfterSite(ppc[j])]
            /\ UNCHANGED <<pstage, psnap>>
       ELSE /\ pstage' = [pstage EXCEPT ![j] = "got"]
            /\ psnap' = [psnap EXCEPT ![j] = Merge(Get(j), SiteFields(j), now)]
            /\ UNCHANGED ppc
  /\ UNCHANGED <<codec, removed, page, animations, sched, sweeps, http, api, owned, opts, shots, backend, now, jobs, created, caught, videoUrl, blobUrl, thumbUrl,
                 recVars, bridge, cl>>

\* AzureTableJobStore.update, second half: updateEntity(..., "Replace")
PUpdatePut(j) ==
  /\ backend = "azure"
  /\ ppc[j] \in UpdateSites
  /\ pstage[j] = "got"
  /\ RowThere(j)
  /\ jobs' = [jobs EXCEPT ![j] = JobToEntity(psnap[j])]
  /\ ppc' = [ppc EXCEPT ![j] = AfterSite(ppc[j])]
  /\ pstage' = [pstage EXCEPT ![j] = "call"]
  /\ psnap' = [psnap EXCEPT ![j] = Absent]
  /\ UNCHANGED <<codec, removed, page, animations, sched, sweeps, http, api, owned, opts, shots, backend, now, created, caught, videoUrl, blobUrl, thumbUrl,
                 recVars, bridge, cl>>

\* a request of AzureTableJobStore.update fails (the table is unreachable, or
\* the entity to replace is gone): the awaited update throws
PUpdateThrow(j) ==
  /\ backend = "azure"
  /\ ppc[j] \in UpdateSites
  /\ ppc' = [ppc EXCEPT ![j] = ThrowTo(ppc[j])]
  /\ caught' = IF ppc[j] = "updCatch" THEN caught
               ELSE [caught EXCEPT ![j] = StoreErrMsg]
  /\ pstage' = [pstage EXCEPT ![j] = "call"]
  /\ psnap' = [psnap EXCEPT ![j] = Absent]
  /\ UNCHANGED <<codec, removed, page, animations, sched, sweeps, http, api, owned, opts, shots, backend, now, jobs, created, videoUrl, blobUrl, thumbUrl,
                 recVars, bridge, cl>>

\* updateEntity reaches the table and replaces the row, but its response is
\* lost (a timeout): the row is written and the awaited update still throws
PUpdateLost(j) ==
  /\ backend = "azure"
  /\ ppc[j] \in UpdateSites
  /\ pstage[j] = "got"
  /\ RowThere(j)
  /\ jobs' = [jobs EXCEPT ![j] = JobToEntity(psnap[j])]
  /\ ppc' = [ppc EXCEPT ![j] = ThrowTo(ppc[j])]
  /\ caught' = IF ppc[j] = "updCatch" THEN caught
               ELSE [caught EXCEPT ![j] = StoreErrMsg]
  /\ pstage' = [pstage EXCEPT ![j] = "call"]
  /\ psnap' = [psnap EXCEPT ![j] = Absent]
  /\ UNCHANGED <<codec, removed, page, animations, sched, sweeps, http, api, owned, opts, shots, backend, now, created, videoUrl, blobUrl, thumbUrl, recVars, bridge, cl>>

\* mkdir -p videos, templateServer.port, buildTemplateUrl
Prep(j) ==
  /\ ppc[j] = "prep"
  /\ \/ /\ ppc' = [ppc EXCEPT ![j] = "upd15"]
        /\ UNCHANGED caught
     \/ /\ ppc' = [ppc EXCEPT ![j] = "updCatch"]
        /\ caught' = [caught EXCEPT ![j] = PrepErrMsg]
  /\ UNCHANGED <<codec, removed, page, animations, sched, sweeps, http, api, owned, opts, shots, backend, now, jobs, created, pstage, psnap, videoUrl, blobUrl,
                 thumbUrl, recVars, bridge, cl>>

\* result = await recordStory({...}): the call
CallRecorder(j) ==
  /\ ppc[j] = "callRecorder"
  /\ ppc' = [ppc EXCEPT ![j] = "record"]
  /\ rpc' = [rpc EXCEPT ![j] = "reportInit"]
  /\ opts' = [opts EXCEPT ![j] = DefaultOptions]
  /\ shots' = [shots EXCEPT ![j] = <<>>]
  /\ UNCHANGED <<codec, removed, page, animations, sched, sweeps, http, api, owned, backend, now, jobs, created, pstage, psnap, caught, videoUrl, blobUrl,
                 thumbUrl, frame, ready, acquired, released, relFailed, rres,
                 ffmpeg, thumbRun, bridge, cl, raised>>

\* recordStory has returned (its locals are gone): if (result.success) ... else ...
RecorderReturned(j) ==
  /\ ppc[j] = "record"
  /\ rpc[j] = "returned"
  /\ ppc' = [ppc EXCEPT ![j] = IF rres[j].success THEN "upd75" ELSE "updFailed"]
  /\ rpc' = [rpc EXCEPT ![j] = "idle"]
  /\ frame' = [frame EXCEPT ![j] = 0]
  /\ ready' = [ready EXCEPT ![j] = FALSE]
  /\ acquired' = [acquired EXCEPT ![j] = {}]
  /\ released' = [released EXCEPT ![j] = {}]
  /\ relFailed' = [relFailed EXCEPT ![j] = {}]
  /\ raised' = [raised EXCEPT ![j] = FALSE]
  /\ owned' = [owned EXCEPT ![j] = NoHandles]
  /\ shots' = [shots EXCEPT ![j] = <<>>]
  /\ UNCHANGED <<codec, removed, page, animations, sched, sweeps, http, api, opts, backend, now, jobs, created, pstage, psnap, caught, videoUrl, blobUrl,
                 thumbUrl, rres, ffmpeg, thumbRun, bridge, cl>>

\* isBlobStorageEnabled(): the same connection string selects the durable store
BlobEnabled == backend = "azure"

LocalThumb(j) == IF rres[j].thumbnailPath THEN "local" ELSE None

\* a processor that takes whatever uploadVideo returned as the URL
VideoUrlUnchecked(returned) == returned

\* if (blobUrl) videoUrl = blobUrl, else the local /videos/<filename> URL
VideoUrlFor(returned) == IF returned = "null" THEN "local" ELSE returned

\* a processor that deletes the local file whatever the upload returned
UploadedOrNot(returned) == TRUE

\* if (blobUrl), if (thumbnailBlobUrl): the upload returned a URL
Uploaded(returned) == returned # "null"

\* try { await Bun.$`rm ${path}`.quiet() } catch { warn }: the local file is
\* deleted, or rm fails and the file stays
Rm(j, file) ==
  \/ removed' = [removed EXCEPT ![j] = @ \cup {file}]
  \/ UNCHANGED removed

\* blob storage configured: uploadVideo returns a URL or null
UploadVideo(j) ==
  /\ ppc[j] = "upload"
  /\ BlobEnabled
  /\ \E returned \in {"blob", "null"} :
       /\ blobUrl' = [blobUrl EXCEPT ![j] = returned]
       /\ videoUrl' = [videoUrl EXCEPT ![j] = VideoUrlFor(returned)]
       /\ IF returned = "null"
            THEN /\ thumbUrl' = [thumbUrl EXCEPT ![j] = LocalThumb(j)]
                 /\ ppc' = [ppc EXCEPT ![j] = "updCompleted"]
            ELSE /\ ppc' = [ppc EXCEPT ![j] =
                              IF rres[j].thumbnailPath THEN "upd90" ELSE "updCompleted"]
                 /\ UNCHANGED thumbUrl
       /\ IF Uploaded(returned) THEN Rm(j, "video") ELSE UNCHANGED removed
  /\ UNCHANGED <<codec, page, animations, sched, sweeps, http, api, owned, opts, shots, backend, now, jobs, created, pstage, psnap, caught,
                 recVars, bridge, cl>>

\* blob storage not configured: the local /videos/ route
LocalFallback(j) ==
  /\ ppc[j] = "upload"
  /\ ~BlobEnabled
  /\ videoUrl' = [videoUrl EXCEPT ![j] = "local"]
  /\ UNCHANGED blobUrl
  /\ thumbUrl' = [thumbUrl EXCEPT ![j] = LocalThumb(j)]
  /\ ppc' = [ppc EXCEPT ![j] = "updCompleted"]
  /\ UNCHANGED <<codec, removed, page, animations, sched, sweeps, http, api, owned, opts, shots, backend, now, jobs, created, pstage, psnap, caught,
                 recVars, bridge, cl>>

\* uploadThumbnail returns a URL or null
UploadThumb(j) ==
  /\ ppc[j] = "uploadThumb"
  /\ \E returned \in {"blob", "null"} :
       /\ IF returned = "null"
            THEN UNCHANGED thumbUrl
            ELSE thumbUrl' = [thumbUrl EXCEPT ![j] = returned]
       /\ IF Uploaded(returned) THEN Rm(j, "thumb") ELSE UNCHANGED removed
  /\ ppc' = [ppc EXCEPT ![j] = "updCompleted"]
  /\ UNCHANGED <<codec, page, animations, sched, sweeps, http, api, owned, opts, shots, backend, now, jobs, created, pstage, psnap, caught, videoUrl, blobUrl,
                 recVars, bridge, cl>>

\* ------------------------------------------------------- un-awaited updates
\* jobStore.update(id, updates) called without await. On the volatile store
\* the update has run when the call returns; on the durable store it stays in
\* flight (a call that finds MaxBridge writes in flight is one whose request
\* fails at once).
BridgeWrite(updates) == [updates |-> updates, stage |-> "call", snap |-> Absent]

UpdateNoAwait(j, updates) ==
  IF backend = "memory"
    THEN /\ jobs' = MemUpdate(j, updates)
         /\ UNCHANGED bridge
    ELSE /\ bridge' = [bridge EXCEPT ![j] =
                         IF Cardinality(bridge[j]) < MaxBridge
                           THEN bridge[j] \cup {BridgeWrite(updates)}
                           ELSE bridge[j]]
         /\ UNCHANGED jobs

\* onProgress: the phase message and the percent, .catch(() => {})
OnProgress(j, msg, pct) ==
  UpdateNoAwait(j, [progress |-> msg, progressPercent |-> pct])

\* an in-flight write: existingJob = await this.get(id); snap is updatedJob
BridgeGet(j, w) ==
  /\ w \in bridge[j]
  /\ w.stage = "call"
  /\ bridge' = [bridge EXCEPT ![j] =
                  IF IsAbsent(jobs[j]) THEN bridge[j] \ {w}
                  ELSE (bridge[j] \ {w}) \cup
                         {[w EXCEPT !.stage = "got",
                                    !.snap = Merge(Get(j), w.updates, now)]}]
  /\ UNCHANGED <<codec, removed, page, animations, sched, sweeps, http, api, owned, opts, shots, backend, now, jobs, created, procVars, recVars, cl>>

\* an in-flight write: updateEntity(..., "Replace")
BridgePut(j, w) ==
  /\ w \in bridge[j]
  /\ w.stage = "got"
  /\ RowThere(j)
  /\ jobs' = [jobs EXCEPT ![j] = JobToEntity(w.snap)]
  /\ bridge' = [bridge EXCEPT ![j] = bridge[j] \ {w}]
  /\ UNCHANGED <<codec, removed, page, animations, sched, sweeps, http, api, owned, opts, shots, backend, now, created, procVars, recVars, cl>>

\* a bridge whose rejected write reaches processVideoJob's catch block
Rethrown(j) ==
  /\ ppc' = [ppc EXCEPT ![j] = "updCatch"]
  /\ caught' = [caught EXCEPT ![j] = StoreErrMsg]
  /\ UNCHANGED <<pstage, psnap, videoUrl, blobUrl, thumbUrl, recVars>>

\* .catch(() => {}): the rejection of the un-awaited update ends there
Dropped(j) == UNCHANGED <<procVars, recVars>>

\* an in-flight write fails; the caller's .catch drops the error
BridgeFail(j, w) ==
  /\ w \in bridge[j]
  /\ bridge' = [bridge EXCEPT ![j] = bridge[j] \ {w}]
  /\ Dropped(j)
  /\ UNCHANGED <<codec, removed, page, animations, sched, sweeps, http, api, owned, opts, shots, backend, now, jobs, created, cl>>

\* ------------------------------------------------------------- recordStory
\* 2^k modulo m
RECURSIVE Pow2Mod(_, _)
Pow2Mod(k, m) == IF k = 0 THEN 1 % m ELSE (2 * Pow2Mod(k - 1, m)) % m

\* the largest b with 2^b <= n, for n >= 1
RECURSIVE Log2(_)
Log2(n) == IF n < 2 THEN 0 ELSE 1 + Log2(n \div 2)

\* the smallest s with duration * 2^s >= 1000, for duration >= 1
RECURSIVE ShiftTo1000(_)
ShiftTo1000(duration) ==
  IF duration >= 1000 THEN 0 ELSE 1 + ShiftTo1000(2 * duration)

\* the binary exponent of duration / 1000: the largest a with
\* 2^a <= duration / 1000
Exponent(duration) ==
  IF duration >= 1000 THEN Log2(duration \div 1000) ELSE 0 - ShiftTo1000(duration)

\* the count in exact arithmetic: the least integer >= duration * frameRate / 1000
ExactFrames(duration, frameRate) == (duration * frameRate + 999) \div 1000

\* Math.ceil((duration / 1000) * frameRate), in the binary64 arithmetic of
\* the language. duration / 1000 is rounded to 53 significant bits: with a
\* its exponent, the quotient is a multiple of 2^(a - 52), and r, the
\* remainder of duration * 2^(52 - a) by 1000, tells how it was rounded (up by
\* (1000 - r) / 1000 of that unit when r > 500). The product with frameRate
\* is rounded once more. When duration * frameRate / 1000 is an integer n with
\* exponent b, the product comes out above n, and Math.ceil gives n + 1, when
\* the quotient was rounded up and frameRate times that excess is more than
\* half a unit of n: 2 * frameRate * (1000 - r) > 1000 * 2^(b - a). When it is
\* not an integer it is at least 1/1000 away from one and the roundings
\* cannot cross it.
TotalFrames(duration, frameRate) ==
  IF duration = 0 \/ (duration * frameRate) % 1000 # 0
    THEN ExactFrames(duration, frameRate)
    ELSE LET n == (duration * frameRate) \div 1000
             a == Exponent(duration)
             b == Log2(n)
             r == ((duration % 1000) * Pow2Mod(52 - a, 1000)) % 1000
         IN IF r > 500 /\ 2 * frameRate * (1000 - r) > 1000 * 2^(b - a)
              THEN n + 1
              ELSE n

\* frameInterval = 1000 / frameRate: exact for the frame rates that divide 1000
FrameInterval(frameRate) == 1000 \div frameRate

\* timeMs = frame * frameInterval
TimeMs(k, frameRate) == k * FrameInterval(frameRate)

\* String(frame): the decimal digits of frame, most significant first
RECURSIVE DigitsOf(_)
DigitsOf(k) == IF k < 10 THEN <<k>> ELSE Append(DigitsOf(k \div 10), k % 10)

\* padStart(n, "0"): zeros in front up to n characters, nothing cut
RECURSIVE PadStart(_, _)
PadStart(digits, n) ==
  IF Len(digits) >= n THEN digits ELSE PadStart(<<0>> \o digits, n)

\* the digits of frame_NNNN.png
FrameName(k) == PadStart(DigitsOf(k), 4)

\* the index ffmpeg's pattern frame_%04d.png reads from a name
RECURSIVE IndexOfName(_)
IndexOfName(name) ==
  IF name = <<>> THEN 0
  ELSE 10 * IndexOfName(SubSeq(name, 1, Len(name) - 1)) + name[Len(name)]

\* a seek to the time the clock shows, as a recording in real time does
SeekedByClock(k, frameRate) ==
  [op |-> "seek", frame |-> k, timeMs |-> now * FrameInterval(frameRate), name |-> <<>>]

\* page.evaluate(__seekTo, timeMs) has returned for frame k
Seeked(k, frameRate) ==
  [op |-> "seek", frame |-> k, timeMs |-> TimeMs(k, frameRate), name |-> <<>>]

\* page.screenshot({ path: framePath }) has returned for frame k
Shot(k) == [op |-> "shot", frame |-> k, timeMs |-> 0, name |-> FrameName(k)]

\* the record the call at pc leaves when it returns
Captured(j, pc) ==
  IF pc = "seek" THEN Append(shots[j], Seeked(frame[j], opts[j].frameRate))
  ELSE IF pc = "shot" THEN Append(shots[j], Shot(frame[j]))
  ELSE shots[j]

Failure(err) == [success |-> FALSE, thumbnailPath |-> FALSE, error |-> err]

Success(thumb) == [success |-> TRUE, thumbnailPath |-> thumb, error |-> None]

\* a capture loop that seeks and goes on to the next frame without the still
NextStepSkipsStill(pc) ==
  CASE pc = "launch" -> "newPage"
    [] pc = "newPage" -> "setup"
    [] pc = "setup" -> "goto"
    [] pc = "goto" -> "waitReady"
    [] pc = "fonts" -> "activate"
    [] pc = "activate" -> "mkdtemp"
    [] OTHER -> "reportFrame"

\* the awaited calls of the try block that only succeed or throw, in order
NextStep(pc) ==
  CASE pc = "launch" -> "newPage"
    [] pc = "newPage" -> "setup"
    [] pc = "setup" -> "goto"
    [] pc = "goto" -> "waitReady"
    [] pc = "fonts" -> "activate"
    [] pc = "activate" -> "mkdtemp"
    [] pc = "seek" -> "shot"
    [] OTHER -> "reportFrame"

PlainSteps == {"launch", "newPage", "setup", "goto", "fonts", "activate", "seek", "shot"}

\* a recorder that writes its frames without making a directory for them
AcquiresNoDirectory(pc) ==
  CASE pc = "launch" -> {"browser"}
    [] pc = "newPage" -> {"page"}
    [] OTHER -> {}

\* the resource a step of the try block stores in its variable
Acquires(pc) ==
  CASE pc = "launch" -> {"browser"}
    [] pc = "newPage" -> {"page"}
    [] pc = "mkdtemp" -> {"tempDir"}
    [] OTHER -> {}

\* one browser process, one page and one directory handed to every recording
SharedHandle(r) == 1

\* puppeteer.launch starts a new browser process, browser.newPage opens a new
\* page and mkdtemp makes a directory under a name not in use: each returns a
\* handle that no recording holds
FreshHandle(r) ==
  LET held == {owned[i][r] : i \in JobIds}
  IN (CHOOSE h \in held : \A g \in held : g <= h) + 1

\* browser = ..., page = ..., tempDir = ...: the handles job j's recording
\* holds once the step at pc has returned
Holds(j, pc) ==
  [r \in Resources |->
     IF r \in Acquires(pc) THEN FreshHandle(r) ELSE owned[j][r]]

\* a catch block that lets the error out of recordStory
CatchRethrows(j, err) ==
  /\ rpc' = [rpc EXCEPT ![j] = "rejected"]
  /\ raised' = [raised EXCEPT ![j] = TRUE]
  /\ UNCHANGED rres

\* the catch block: the error becomes the result, then the finally block runs
Catch(j, err) ==
  /\ rres' = [rres EXCEPT ![j] = Failure(err)]
  /\ raised' = [raised EXCEPT ![j] = TRUE]
  /\ rpc' = [rpc EXCEPT ![j] = "closePage"]

\* an awaited call of the try block returns
RecStep(j) ==
  /\ rpc[j] \in PlainSteps
  /\ rpc' = [rpc EXCEPT ![j] = NextStep(rpc[j])]
  /\ acquired' = [acquired EXCEPT ![j] = acquired[j] \cup Acquires(rpc[j])]
  /\ owned' = [owned EXCEPT ![j] = Holds(j, rpc[j])]
  /\ shots' = [shots EXCEPT ![j] = Captured(j, rpc[j])]
  /\ UNCHANGED <<codec, removed, page, animations, sched, sweeps, http, api, opts, backend, now, jobs, created, procVars, frame, ready, released,
                 relFailed, rres, ffmpeg, thumbRun, bridge, cl, raised>>

\* an awaited call of the try block throws (launch, newPage, setViewport,
\* exposeFunction, goto, evaluate, mkdtemp, screenshot)
RecThrow(j) ==
  /\ rpc[j] \in PlainSteps \cup {"mkdtemp"}
  /\ Catch(j, RecorderErrMsg)
  /\ UNCHANGED <<codec, removed, page, animations, sched, sweeps, http, api, owned, opts, shots, backend, now, jobs, created, procVars, frame, ready, acquired,
                 released, relFailed, ffmpeg, thumbRun, bridge, cl>>

\* the page calls window.storyReady()
PageReady(j) ==
  /\ rpc[j] \in {"goto", "waitReady"}
  /\ ~ready[j]
  /\ ready' = [ready EXCEPT ![j] = TRUE]
  /\ UNCHANGED <<codec, removed, page, animations, sched, sweeps, http, api, owned, opts, shots, backend, now, jobs, created, procVars, rpc, frame, acquired,
                 released, relFailed, rres, ffmpeg, thumbRun, bridge, cl, raised>>

\* Promise.race([readyPromise, readyTimeout]): readyPromise wins
WaitReady(j) ==
  /\ rpc[j] = "waitReady"
  /\ ready[j]
  /\ rpc' = [rpc EXCEPT ![j] = "fonts"]
  /\ UNCHANGED <<codec, removed, page, animations, sched, sweeps, http, api, owned, opts, shots, backend, now, jobs, created, procVars, frame, ready, acquired,
                 released, relFailed, rres, ffmpeg, thumbRun, bridge, cl, raised>>

\* Promise.race([readyPromise, readyTimeout]): the 30 s timer rejects first
ReadyTimeout(j) ==
  /\ rpc[j] = "waitReady"
  /\ ~ready[j]
  /\ Catch(j, ReadyTimeoutMsg)
  /\ UNCHANGED <<codec, removed, page, animations, sched, sweeps, http, api, owned, opts, shots, backend, now, jobs, created, procVars, frame, ready, acquired,
                 released, relFailed, ffmpeg, thumbRun, bridge, cl>>

\* where recordStory is while the page it loaded is open and running
LoadedPcs ==
  {"goto", "waitReady", "fonts", "activate", "mkdtemp", "seek", "shot",
   "reportFrame", "reportStitch", "stitch", "reportThumb", "thumb",
   "reportComplete"}

\* the storyReady hook: resolveReady(); resolving a promise that is already
\* resolved does nothing
StoryReady(j) == ready' = [ready EXCEPT ![j] = TRUE]

\* the page calls window.storyReady(), for the first time or again, at any
\* moment from its load on
ReadyCall(j) ==
  /\ rpc[j] \in LoadedPcs
  /\ page[j].readyCalls < MaxReadyCalls
  /\ page' = [page EXCEPT ![j].readyCalls = @ + 1]
  /\ StoryReady(j)
  /\ UNCHANGED <<codec, removed, animations, sched, sweeps, http, api, owned, opts, shots,
                 backend, now, jobs, created, procVars, rpc, frame, acquired,
                 released, relFailed, rres, ffmpeg, thumbRun, bridge, cl,
                 raised>>

\* the storyDone hook of the recorder that records a screencast: resolveDone()
\* ends the recording
StoryDoneEndsCapture(j) ==
  /\ rpc' = [rpc EXCEPT ![j] = IF @ \in {"seek", "shot"} THEN "reportStitch" ELSE @]
  /\ UNCHANGED <<ready, frame, rres, raised>>

\* the storyDone hook: an empty function
StoryDone(j) == UNCHANGED <<rpc, ready, frame, rres, raised>>

\* the page calls window.storyDone()
DoneCall(j) ==
  /\ rpc[j] \in LoadedPcs
  /\ page[j].doneCalls < MaxDoneCalls
  /\ page' = [page EXCEPT ![j].doneCalls = @ + 1]
  /\ StoryDone(j)
  /\ UNCHANGED <<codec, removed, animations, sched, sweeps, http, api, owned, opts, shots,
                 backend, now, jobs, created, procVars, acquired, released,
                 relFailed, ffmpeg, thumbRun, bridge, cl>>

\* where the 30 s timer exists: it is set when goto has returned and is never
\* cleared, so it is still there when recordStory has returned
TimerSet(j) ==
  \/ rpc[j] \in LoadedPcs \ {"goto"}
  \/ rpc[j] \in {"closePage", "closeBrowser", "rmTemp", "returned"}
       /\ "tempDir" \in acquired[j]

\* a race that every rejection of readyTimeout ends
RaceAlwaysOpen(j) == TRUE

\* Promise.race([readyPromise, readyTimeout]) is pending: recordStory is at
\* the await and readyPromise is not resolved
RaceOpen(j) == rpc[j] = "waitReady" /\ ~ready[j]

\* the 30 s timer fires and rejects readyTimeout: the race rejects if it is
\* still pending, and a settled race ignores it
TimerFires(j) ==
  /\ TimerSet(j)
  /\ ~page[j].fired
  /\ page' = [page EXCEPT ![j].fired = TRUE]
  /\ IF RaceOpen(j)
       THEN Catch(j, ReadyTimeoutMsg)
       ELSE UNCHANGED <<rpc, rres, raised>>
  /\ UNCHANGED <<codec, removed, animations, sched, sweeps, http, api, owned, opts, shots,
                 backend, now, jobs, created, procVars, frame, ready, acquired,
                 released, relFailed, ffmpeg, thumbRun, bridge, cl>>

\* ------------------------------------------------ the page script, initStory
\* the page runs while recordStory keeps it open, or, opened in a browser
\* without the hooks, for as long as it likes
PageAlive(j) == ~page[j].hooks \/ rpc[j] \in LoadedPcs

\* what a step of initStory leaves alone in the host
ScriptFrame ==
  UNCHANGED <<codec, removed, animations, sched, sweeps, http, api, owned, opts, shots,
              backend, now, jobs, created, procVars, acquired, released,
              relFailed, ffmpeg, thumbRun, bridge, cl>>

\* debug data, or getParams, fetchArticleData and extractArticleData: the
\* article data, or an exception (missing parameters, a failed fetch)
LoadData(j) ==
  /\ page[j].ipc = "data"
  /\ PageAlive(j)
  /\ \E next \in {"render", "catch"} : page' = [page EXCEPT ![j].ipc = next]
  /\ UNCHANGED <<rpc, ready, frame, rres, raised>>
  /\ ScriptFrame

\* renderContent, document.fonts.ready and the 300 ms for the DOM to settle;
\* renderContent may throw
Render(j) ==
  /\ page[j].ipc = "render"
  /\ PageAlive(j)
  /\ \E next \in {"signal", "catch"} : page' = [page EXCEPT ![j].ipc = next]
  /\ UNCHANGED <<rpc, ready, frame, rres, raised>>
  /\ ScriptFrame

\* if (window.storyReady) { await window.storyReady(); hasSignaledReady = true }
SignalReady(j) ==
  /\ page[j].ipc = "signal"
  /\ PageAlive(j)
  /\ IF page[j].hooks
       THEN /\ page' = [page EXCEPT ![j].ipc = "delay",
                                    ![j].readyCalls = @ + 1,
                                    ![j].signaled = TRUE]
            /\ StoryReady(j)
       ELSE /\ page' = [page EXCEPT ![j].ipc = "delay"]
            /\ UNCHANGED ready
  /\ UNCHANGED <<rpc, frame, rres, raised>>
  /\ ScriptFrame

\* the 50 ms timer has run out and its callback runs:
\* document.body.classList.add("animations-started")
StartAnimations(j) ==
  /\ page[j].ipc = "delay"
  /\ PageAlive(j)
  /\ page[j].pwait >= ReadyDelayMs
  /\ page' = [page EXCEPT ![j].ipc = "animate", ![j].started = TRUE]
  /\ UNCHANGED <<rpc, ready, frame, rres, raised>>
  /\ ScriptFrame

\* await animateContent(): it resolves, or throws
Animate(j) ==
  /\ page[j].ipc = "animate"
  /\ PageAlive(j)
  /\ \E next \in {"signalDone", "catch"} : page' = [page EXCEPT ![j].ipc = next]
  /\ UNCHANGED <<rpc, ready, frame, rres, raised>>
  /\ ScriptFrame

\* if (window.storyDone) await window.storyDone(), at the end of the try
\* block ("signalDone") and at the end of the catch block ("recoverDone")
SignalDone(j) ==
  /\ page[j].ipc \in {"signalDone", "recoverDone"}
  /\ PageAlive(j)
  /\ IF page[j].hooks
       THEN /\ page' = [page EXCEPT ![j].ipc = "end", ![j].doneCalls = @ + 1]
            /\ StoryDone(j)
       ELSE /\ page' = [page EXCEPT ![j].ipc = "end"]
            /\ UNCHANGED <<rpc, ready, frame, rres, raised>>
  /\ ScriptFrame

\* a catch block that signals ready whatever the try block did
RecoveryAlwaysSignals(p) == p.hooks

\* if (!hasSignaledReady && window.storyReady)
RecoverySignals(p) == ~p.signaled /\ p.hooks

\* the catch block up to its ready call
Recover(j) ==
  /\ page[j].ipc = "catch"
  /\ PageAlive(j)
  /\ IF RecoverySignals(page[j])
       THEN /\ page' = [page EXCEPT ![j].ipc = "recoverDone",
                                    ![j].readyCalls = @ + 1]
            /\ StoryReady(j)
       ELSE /\ page' = [page EXCEPT ![j].ipc = "recoverDone"]
            /\ UNCHANGED ready
  /\ UNCHANGED <<rpc, frame, rres, raised>>
  /\ ScriptFrame

\* 50 ms pass while the page is in its delay or the host in its
\* settle delay: setTimeout runs a callback when its delay has passed or later
Elapse(j) ==
  /\ LET p == page[j]
         inDelay == p.ipc = "delay" /\ p.pwait + ReadyDelayMs <= MaxWaitMs
         inSettle == rpc[j] = "activate" /\ p.hwait + ReadyDelayMs <= MaxWaitMs
     IN /\ inDelay \/ inSettle
        /\ page' = [page EXCEPT
             ![j].pwait = IF inDelay THEN @ + ReadyDelayMs ELSE @,
             ![j].hwait = IF inSettle THEN @ + ReadyDelayMs ELSE @]
  /\ UNCHANGED <<rpc, ready, frame, rres, raised>>
  /\ ScriptFrame

\* await new Promise(resolve => setTimeout(resolve, 100)) before the control
\* script is evaluated; every other awaited call as in RecStep
SettleElapsed(j) == rpc[j] = "activate" => page[j].hwait >= SettleMs

HostStep(j) == SettleElapsed(j) /\ RecStep(j)

\* mkdtemp, totalFrames, then the capture loop's first test
Mkdtemp(j) ==
  /\ rpc[j] = "mkdtemp"
  /\ acquired' = [acquired EXCEPT ![j] = acquired[j] \cup Acquires("mkdtemp")]
  /\ owned' = [owned EXCEPT ![j] = Holds(j, "mkdtemp")]
  /\ frame' = [frame EXCEPT ![j] = 0]
  /\ rpc' = [rpc EXCEPT ![j] =
               IF 0 < TotalFrames(opts[j].duration, opts[j].frameRate)
                 THEN "seek" ELSE "reportStitch"]
  /\ UNCHANGED <<codec, removed, page, animations, sched, sweeps, http, api, opts, shots, backend, now, jobs, created, procVars, ready, released,
                 relFailed, rres, ffmpeg, thumbRun, bridge, cl, raised>>

\* the encoder run for the video: exit status 0; a non-zero exit status
\* returned in the result ("exit", the branch the source tests); or the shell
\* call rejecting ("throw": Bun's $ throws on a non-zero exit status unless
\* .nothrow() was asked for, and on a failure to start the program)
Stitch(j) ==
  /\ rpc[j] = "stitch"
  /\ \/ /\ ffmpeg' = [ffmpeg EXCEPT ![j] = "ok"]
        /\ rpc' = [rpc EXCEPT ![j] = "reportThumb"]
        /\ UNCHANGED <<rres, raised>>
     \/ /\ ffmpeg' = [ffmpeg EXCEPT ![j] = "exit"]
        /\ rres' = [rres EXCEPT ![j] = Failure(FFmpegFailedMsg)]
        /\ rpc' = [rpc EXCEPT ![j] = "closePage"]
        /\ UNCHANGED raised
     \/ /\ ffmpeg' = [ffmpeg EXCEPT ![j] = "throw"]
        /\ Catch(j, ShellErrorMsg)
  /\ UNCHANGED <<codec, removed, page, animations, sched, sweeps, http, api, owned, opts, shots, backend, now, jobs, created, procVars, frame, ready, acquired,
                 released, relFailed, thumbRun, bridge, cl>>

\* the encoder run for the thumbnail, with the same three endings
Thumbnail(j) ==
  /\ rpc[j] = "thumb"
  /\ \/ /\ thumbRun' = [thumbRun EXCEPT ![j] = "ok"]
        /\ rres' = [rres EXCEPT ![j] = Success(TRUE)]
        /\ rpc' = [rpc EXCEPT ![j] = "reportComplete"]
        /\ UNCHANGED raised
     \/ /\ thumbRun' = [thumbRun EXCEPT ![j] = "exit"]
        /\ rres' = [rres EXCEPT ![j] = Success(FALSE)]
        /\ rpc' = [rpc EXCEPT ![j] = "reportComplete"]
        /\ UNCHANGED raised
     \/ /\ thumbRun' = [thumbRun EXCEPT ![j] = "throw"]
        /\ Catch(j, ShellErrorMsg)
  /\ UNCHANGED <<codec, removed, page, animations, sched, sweeps, http, api, owned, opts, shots, backend, now, jobs, created, procVars, frame, ready, acquired,
                 released, relFailed, ffmpeg, bridge, cl>>

\* the finally block, one resource after the other: each release is skipped
\* when the variable is null, and sits in its own try / catch
FinallyOrder(pc) ==
  CASE pc = "closePage" -> "closeBrowser"
    [] pc = "closeBrowser" -> "rmTemp"
    [] OTHER -> "returned"

ReleasedAt(pc) ==
  CASE pc = "closePage" -> "page"
    [] pc = "closeBrowser" -> "browser"
    [] OTHER -> "tempDir"

FinallySteps == {"closePage", "closeBrowser", "rmTemp"}

\* a finally block with one try around all three releases: the first release
\* that throws ends it
AfterReleaseThrowSkipsRest(pc) == "returned"

\* where recordStory continues when the release at pc has thrown
AfterReleaseThrow(pc) == FinallyOrder(pc)

Release(j) ==
  /\ rpc[j] \in FinallySteps
  /\ rpc' = [rpc EXCEPT ![j] = FinallyOrder(rpc[j])]
  /\ released' = [released EXCEPT ![j] =
                    released[j] \cup ({ReleasedAt(rpc[j])} \cap acquired[j])]
  /\ UNCHANGED <<codec, removed, page, animations, sched, sweeps, http, api, owned, opts, shots, backend, now, jobs, created, procVars, frame, ready, acquired,
                 relFailed, rres, ffmpeg, thumbRun, bridge, cl, raised>>

ReleaseThrow(j) ==
  /\ rpc[j] \in FinallySteps
  /\ ReleasedAt(rpc[j]) \in acquired[j]
  /\ rpc' = [rpc EXCEPT ![j] = AfterReleaseThrow(rpc[j])]
  /\ relFailed' = [relFailed EXCEPT ![j] = relFailed[j] \cup {ReleasedAt(rpc[j])}]
  /\ UNCHANGED <<codec, removed, page, animations, sched, sweeps, http, api, owned, opts, shots, backend, now, jobs, created, procVars, frame, ready, acquired,
                 released, rres, ffmpeg, thumbRun, bridge, cl, raised>>

\* the recorder's calls of options.onProgress: phase and percent
ReportPcs == {"reportInit", "reportFrame", "reportStitch", "reportThumb", "reportComplete"}

PhaseMessage(pc) ==
  CASE pc = "reportInit" -> "Initializing browser"
    [] pc = "reportFrame" -> "Capturing frames"
    [] pc = "reportStitch" -> "Encoding video"
    [] pc = "reportThumb" -> "Generating thumbnail"
    [] OTHER -> "Recording complete"

PhasePercent(pc, k, total) ==
  CASE pc = "reportInit" -> 15
    [] pc = "reportFrame" -> 15 + (60 * k) \div total
    [] pc = "reportStitch" -> 75
    [] pc = "reportThumb" -> 90
    [] OTHER -> 100

AfterReport(pc, k, total) ==
  CASE pc = "reportInit" -> "launch"
    [] pc = "reportFrame" ->
         IF k + 1 < total THEN "seek" ELSE "reportStitch"
    [] pc = "reportStitch" -> "stitch"
    [] pc = "reportThumb" -> "thumb"
    [] OTHER -> "closePage"

ReportProgress(j) ==
  /\ rpc[j] \in ReportPcs
  /\ LET total == TotalFrames(opts[j].duration, opts[j].frameRate)
     IN /\ OnProgress(j, PhaseMessage(rpc[j]), PhasePercent(rpc[j], frame[j], total))
        /\ rpc' = [rpc EXCEPT ![j] = AfterReport(rpc[j], frame[j], total)]
  /\ frame' = [frame EXCEPT ![j] = IF rpc[j] = "reportFrame" THEN @ + 1 ELSE @]
  /\ UNCHANGED <<codec, removed, page, animations, sched, sweeps, http, api, owned, opts, shots, backend, now, created, procVars, ready, acquired, released,
                 relFailed, rres, ffmpeg, thumbRun, cl, raised>>

\* ------------------------------------------------------------ handleGetJob
NotFound ==
  [code |-> 404, status |-> "notfound", progress |-> None,
   progressPercent |-> NoPct, url |-> None, thumbnailUrl |-> None,
   error |-> None]

Snapshot(job) ==
  [code |-> 200,
   status |-> job.status,
   progress |-> job.progress,
   progressPercent |-> job.progressPercent,
   url |-> IF job.status = "completed" /\ job.result # NoResult
             THEN job.result.url ELSE None,
   thumbnailUrl |-> IF job.status = "completed" /\ job.result # NoResult
                      THEN job.result.thumbnailUrl ELSE None,
   error |-> IF job.status = "failed" /\ job.error # None THEN job.error ELSE None]

\* the response of GET /api/jobs/:id in the current state (the handler reads
\* the store once and changes nothing)
HandleGetJob(j) == IF IsAbsent(Get(j)) THEN NotFound ELSE Snapshot(Get(j))

\* GET /api/job/:id when the store answers
Poll(j) ==
  /\ http' = Polled(j, HandleGetJob(j))
  /\ UNCHANGED <<codec, removed, page, animations, sched, sweeps, api, owned, opts, shots, backend, now, jobs, created,
                 procVars, recVars, bridge, cl>>

\* GET /api/job/:id when the table request fails with anything but a 404:
\* AzureTableJobStore.get rethrows, and handleGetJob awaits it outside any try
PollThrows(j) ==
  /\ backend = "azure"
  /\ http' = PollRejected(j)
  /\ UNCHANGED <<codec, removed, page, animations, sched, sweeps, api, owned, opts, shots, backend, now, jobs, created,
                 procVars, recVars, bridge, cl>>

\* ------------------------------------------------------- handleCreateVideo
\* a check that forgets the last of the required fields
MissingIgnoresTemplate(body) ==
  {key \in Required \ {"template"} : body[key] \in {None, ""}}

\* required.filter((key) => !body[key])
Missing(body) == {key \in Required : body[key] \in {None, ""}}

\* jobStore.create threw (durable backend): the catch block answers 500, and
\* no processor is spawned; the entity was written or not
CreateFails(j, body) ==
  /\ backend = "azure"
  /\ j = Cardinality(created) + 1
  /\ created' = created \cup {j}
  /\ \/ UNCHANGED jobs
     \/ jobs' = [jobs EXCEPT ![j] = Stored(NewJob(j, now))]
  /\ http' = ServerError(body)
  /\ UNCHANGED <<codec, removed, page, animations, sched, sweeps, api, owned, opts, shots, backend, now, procVars, recVars,
                 bridge, cl>>

\* POST /api/create-video
HandleCreateVideo(j, body) ==
  IF Missing(body) # {}
    THEN /\ http' = BadRequest(body, Missing(body))
         /\ UNCHANGED <<codec, removed, page, animations, sched, sweeps, api, owned, opts, shots, backend, now, jobs, created,
                        procVars, recVars, bridge, cl>>
    ELSE \/ CreateVideoFor(j, body)
         \/ CreateFails(j, body)

\* ------------------------------------------------------------------ cleanup
\* a comparison that also takes a record modified exactly at the cutoff
ExpiredAtCutoff(job, cutoff) == job.status \in Terminal /\ job.updatedAt <= cutoff

\* completed or failed, and updatedAt before the cutoff
Expired(job, cutoff) == job.status \in Terminal /\ job.updatedAt < cutoff

\* the rows the filtered query returns
Listed(cutoff) == {j \in JobIds : ~IsAbsent(jobs[j]) /\ Expired(jobs[j], cutoff)}

\* what a pass finds when it starts, kept to judge it when it ends: the
\* records modified before the cutoff and the records in a terminal status
OlderThan(cutoff) ==
  {j \in JobIds : ~IsAbsent(jobs[j]) /\ jobs[j].updatedAt < cutoff}

InTerminal == {j \in JobIds : ~IsAbsent(jobs[j]) /\ jobs[j].status \in Terminal}

\* no cleanup pass in progress. Of a pass: todo is the listed rows still to
\* delete, removed the rows it has removed, deleted its counter
Idle ==
  [pc |-> "idle", old |-> {}, term |-> {}, todo |-> {}, removed |-> {},
   deleted |-> 0]

\* InMemoryJobStore.cleanup's loop over the map's entries, in insertion order
RECURSIVE MemSweep(_, _, _)
MemSweep(acc, ids, cutoff) ==
  IF ids = {} THEN acc
  ELSE LET id == CHOOSE x \in ids : \A y \in ids : x <= y
           hit == ~IsAbsent(acc.store[id]) /\ Expired(acc.store[id], cutoff)
       IN MemSweep(
            IF hit
              THEN [store |-> [acc.store EXCEPT ![id] = Absent],
                    removed |-> acc.removed \cup {id},
                    deleted |-> acc.deleted + 1]
              ELSE acc,
            ids \ {id}, cutoff)

\* InMemoryJobStore.cleanup: one synchronous pass; the count is returned later
CleanupMem(maxAgeMs) ==
  /\ backend = "memory"
  /\ cl.pc = "idle"
  /\ LET cutoff == now - maxAgeMs
         r == MemSweep([store |-> jobs, removed |-> {}, deleted |-> 0], JobIds, cutoff)
     IN /\ jobs' = r.store
        /\ cl' = [pc |-> "returning", old |-> OlderThan(cutoff),
                  term |-> InTerminal, todo |-> {}, removed |-> r.removed,
                  deleted |-> r.deleted]
  /\ UNCHANGED <<codec, removed, page, animations, sched, sweeps, http, api, owned, opts, shots, backend, now, created, procVars, recVars, bridge>>

\* AzureTableJobStore.cleanup: the filtered listEntities query
CleanupList(maxAgeMs) ==
  /\ backend = "azure"
  /\ cl.pc = "idle"
  /\ LET cutoff == now - maxAgeMs
     IN cl' = [pc |-> "deleting", old |-> OlderThan(cutoff),
               term |-> InTerminal, todo |-> Listed(cutoff), removed |-> {},
               deleted |-> 0]
  /\ UNCHANGED <<codec, removed, page, animations, sched, sweeps, http, api, owned, opts, shots, backend, now, jobs, created, procVars, recVars, bridge>>

\* AzureTableJobStore.cleanup: deleteEntity of a listed row succeeds
CleanupDelete(j) ==
  /\ cl.pc = "deleting"
  /\ j \in cl.todo
  /\ ~IsAbsent(jobs[j])
  /\ jobs' = [jobs EXCEPT ![j] = Absent]
  /\ cl' = [cl EXCEPT !.todo = @ \ {j}, !.removed = @ \cup {j}, !.deleted = @ + 1]
  /\ UNCHANGED <<codec, removed, page, animations, sched, sweeps, http, api, owned, opts, shots, backend, now, created, procVars, recVars, bridge>>

\* AzureTableJobStore.cleanup: deleteEntity throws, catch {} ignores it
CleanupDeleteFail(j) ==
  /\ cl.pc = "deleting"
  /\ j \in cl.todo
  /\ cl' = [cl EXCEPT !.todo = @ \ {j}]
  /\ UNCHANGED <<codec, removed, page, animations, sched, sweeps, http, api, owned, opts, shots, backend, now, jobs, created, procVars, recVars, bridge>>

\* AzureTableJobStore.cleanup: deleteEntity removes the row but its response
\* is lost, so it throws and the row is not counted
CleanupDeleteLost(j) ==
  /\ cl.pc = "deleting"
  /\ j \in cl.todo
  /\ ~IsAbsent(jobs[j])
  /\ jobs' = [jobs EXCEPT ![j] = Absent]
  /\ cl' = [cl EXCEPT !.todo = @ \ {j}, !.removed = @ \cup {j}]
  /\ UNCHANGED <<codec, removed, page, animations, sched, sweeps, http, api, owned, opts, shots, backend, now, created, procVars, recVars, bridge>>

\* AzureTableJobStore.cleanup: the loop has ended
CleanupListed ==
  /\ cl.pc = "deleting"
  /\ cl.todo = {}
  /\ cl' = [cl EXCEPT !.pc = "returning"]
  /\ UNCHANGED <<codec, removed, page, animations, sched, sweeps, http, api, owned, opts, shots, backend, now, jobs, created, procVars, recVars, bridge>>

\* return deleted: the pass is over
CleanupReturn ==
  /\ cl.pc = "returning"
  /\ cl' = Idle
  /\ UNCHANGED <<codec, removed, page, animations, sched, sweeps, http, api, owned, opts, shots, backend, now, jobs, created, procVars, recVars, bridge>>

\* ------------------------------------------------------------------- clock
Tick ==
  /\ now < MaxClock
  /\ now' = now + 1
  /\ UNCHANGED <<codec, removed, page, animations, sched, sweeps, http, api, owned, opts, shots, backend, jobs, created, procVars, recVars, bridge, cl>>

\* ------------------------------------------------------ the cleanup scheduler
\* 24 hours in milliseconds: 24 * 60 * 60 * 1000
JOB_MAX_AGE_MS == 86400000

\* run every hour: 60 * 60 * 1000
CLEANUP_INTERVAL_MS == 3600000

\* intervals of the timer followed, calls of startJobCleanup made, failed
\* passes, and the intervals in which jobs still run
MaxIntervals == 26
MaxStarts == 2
MaxFailures == 1
MaxRunIntervals == 0

\* a pass and the pass of the next interval, launched while the first is
\* still at work
Slots == {1, 2}

\* no pass in the slot. Of a pass: origin is the call that launched it,
\* cutoff its Date.now() - maxAgeMs, todo the listed rows still to delete,
\* deleted its counter, clean whether every delete it made took effect
NoPass ==
  [pc |-> "none", origin |-> "none", maxAgeMs |-> 0, cutoff |-> 0,
   todo |-> {}, deleted |-> 0, clean |-> TRUE]

\* cleanupInterval is 0 for null, else the timer's handle; timers counts the
\* setInterval timers alive; starts, immediate and ticks count the calls of
\* startJobCleanup, the passes it launched itself and the timer's callbacks;
\* failed counts the passes whose rejection was logged; reports how often
\* each record was counted as removed
NoSched ==
  [cleanupInterval |-> 0, timers |-> 0, starts |-> 0, immediate |-> 0,
   ticks |-> 0, startedAt |-> 0, failed |-> 0,
   reports |-> [j \in JobIds |-> 0]]

\* a start that never finds the timer set
StartedNever == FALSE

\* if (cleanupInterval)
Started == sched.cleanupInterval # 0

FreeSlots == {s \in Slots : sweeps[s].pc = "none"}

\* jobStore.cleanup(JOB_MAX_AGE_MS) is called at time t, un-awaited, into
\* slot s. The volatile store's pass has no await: it runs to its end inside
\* the call. The durable store's pass stops at its first await, ensureTable
Launch(s, origin, log, t) ==
  IF backend = "memory"
    THEN LET cutoff == t - JOB_MAX_AGE_MS
             r == MemSweep([store |-> jobs, removed |-> {}, deleted |-> 0],
                           JobIds, cutoff)
         IN /\ jobs' = r.store
            /\ sweeps' = [sweeps EXCEPT ![s] =
                 [pc |-> "returning", origin |-> origin,
                  maxAgeMs |-> JOB_MAX_AGE_MS, cutoff |-> cutoff,
                  todo |-> {}, deleted |-> r.deleted, clean |-> TRUE]]
            /\ sched' = [log EXCEPT !.reports =
                 [j \in JobIds |-> IF j \in r.removed THEN @[j] + 1 ELSE @[j]]]
    ELSE /\ sweeps' = [sweeps EXCEPT ![s] =
              [NoPass EXCEPT !.pc = "ensure", !.origin = origin,
                             !.maxAgeMs = JOB_MAX_AGE_MS]]
         /\ sched' = log
         /\ UNCHANGED jobs

\* startJobCleanup(); startWebService makes the first call as the service
\* comes up, before the clock's first interval
StartJobCleanup ==
  /\ sched.starts < MaxStarts
  /\ IF Started
       THEN /\ sched' = [sched EXCEPT !.starts = @ + 1]
            /\ UNCHANGED <<sweeps, jobs>>
       ELSE \E s \in FreeSlots :
              /\ now = 0
              /\ \A o \in FreeSlots : s <= o
              /\ Launch(s, "start",
                        [sched EXCEPT !.starts = @ + 1,
                                      !.immediate = @ + 1,
                                      !.timers = @ + 1,
                                      !.cleanupInterval = sched.timers + 1,
                                      !.startedAt = now],
                        now)
  /\ UNCHANGED <<codec, removed, page, animations, http, api, owned, opts, shots, backend, now, created,
                 procVars, recVars, bridge, cl>>

\* CLEANUP_INTERVAL_MS pass on the clock; when a timer is alive its callback
\* runs and launches a pass
IntervalElapses ==
  /\ now < MaxIntervals * CLEANUP_INTERVAL_MS
  /\ now' = now + CLEANUP_INTERVAL_MS
  /\ IF sched.timers = 0
       THEN UNCHANGED <<sched, sweeps, jobs>>
       ELSE \E s \in FreeSlots :
              /\ \A o \in FreeSlots : s <= o
              /\ Launch(s, "timer", [sched EXCEPT !.ticks = @ + 1],
                        now + CLEANUP_INTERVAL_MS)
  /\ UNCHANGED <<codec, removed, page, animations, http, api, owned, opts, shots, backend, created, procVars,
                 recVars, bridge, cl>>

\* a job is created and runs while the scheduler is up: its record, as its
\* processor last wrote it
JobRuns(j, status) ==
  /\ now <= MaxRunIntervals * CLEANUP_INTERVAL_MS
  /\ j \notin created
  /\ created' = created \cup {j}
  /\ jobs' = [jobs EXCEPT ![j] =
       Stored(Merge(NewJob(j, now), [status |-> status], now))]
  /\ UNCHANGED <<codec, removed, page, animations, sched, sweeps, http, api, owned, opts, shots, backend, now,
                 procVars, recVars, bridge, cl>>

\* AzureTableJobStore.cleanup: ensureTable has returned; the cutoff is taken
\* and the filtered listEntities query made
PassList(s) ==
  /\ sweeps[s].pc = "ensure"
  /\ LET cutoff == now - sweeps[s].maxAgeMs
     IN sweeps' = [sweeps EXCEPT ![s].pc = "deleting", ![s].cutoff = cutoff,
                                 ![s].todo = Listed(cutoff)]
  /\ UNCHANGED <<codec, removed, page, animations, sched, http, api, owned, opts, shots, backend, now, jobs,
                 created, procVars, recVars, bridge, cl>>

\* deleteEntity of a listed row succeeds: deleted++
PassDelete(s, j) ==
  /\ sweeps[s].pc = "deleting"
  /\ j \in sweeps[s].todo
  /\ ~IsAbsent(jobs[j])
  /\ jobs' = [jobs EXCEPT ![j] = Absent]
  /\ sweeps' = [sweeps EXCEPT ![s].todo = @ \ {j}, ![s].deleted = @ + 1]
  /\ sched' = [sched EXCEPT !.reports[j] = @ + 1]
  /\ UNCHANGED <<codec, removed, page, animations, http, api, owned, opts, shots, backend, now, created,
                 procVars, recVars, bridge, cl>>

\* a pass that lets the 404 of a row already removed end it
PassDeleteGoneRaises(s, j) ==
  /\ sweeps[s].pc = "deleting"
  /\ j \in sweeps[s].todo
  /\ IsAbsent(jobs[j])
  /\ sweeps' = [sweeps EXCEPT ![s] = NoPass]
  /\ sched' = [sched EXCEPT !.failed = @ + 1]
  /\ UNCHANGED <<codec, removed, page, animations, http, api, owned, opts, shots, backend, now, jobs, created,
                 procVars, recVars, bridge, cl>>

\* deleteEntity of a listed row that another pass has removed since: the 404
\* is thrown and the empty catch ignores it
PassDeleteGone(s, j) ==
  /\ sweeps[s].pc = "deleting"
  /\ j \in sweeps[s].todo
  /\ IsAbsent(jobs[j])
  /\ sweeps' = [sweeps EXCEPT ![s].todo = @ \ {j}]
  /\ UNCHANGED <<codec, removed, page, animations, sched, http, api, owned, opts, shots, backend, now, jobs,
                 created, procVars, recVars, bridge, cl>>

\* deleteEntity fails before reaching the row: ignored, the row stays
PassDeleteFail(s, j) ==
  /\ sweeps[s].pc = "deleting"
  /\ j \in sweeps[s].todo
  /\ ~IsAbsent(jobs[j])
  /\ sweeps' = [sweeps EXCEPT ![s].todo = @ \ {j}, ![s].clean = FALSE]
  /\ UNCHANGED <<codec, removed, page, animations, sched, http, api, owned, opts, shots, backend, now, jobs,
                 created, procVars, recVars, bridge, cl>>

\* deleteEntity removes the row but its response is lost: ignored, the row
\* is gone and not counted
PassDeleteLost(s, j) ==
  /\ sweeps[s].pc = "deleting"
  /\ j \in sweeps[s].todo
  /\ ~IsAbsent(jobs[j])
  /\ jobs' = [jobs EXCEPT ![j] = Absent]
  /\ sweeps' = [sweeps EXCEPT ![s].todo = @ \ {j}]
  /\ UNCHANGED <<codec, removed, page, animations, sched, http, api, owned, opts, shots, backend, now, created,
                 procVars, recVars, bridge, cl>>

\* the loop has ended
PassListed(s) ==
  /\ sweeps[s].pc = "deleting"
  /\ sweeps[s].todo = {}
  /\ sweeps' = [sweeps EXCEPT ![s].pc = "returning"]
  /\ UNCHANGED <<codec, removed, page, animations, sched, http, api, owned, opts, shots, backend, now, jobs,
                 created, procVars, recVars, bridge, cl>>

\* return deleted: the promise resolves and nobody reads the count
PassReturn(s) ==
  /\ sweeps[s].pc = "returning"
  /\ sweeps' = [sweeps EXCEPT ![s] = NoPass]
  /\ UNCHANGED <<codec, removed, page, animations, sched, http, api, owned, opts, shots, backend, now, jobs, created,
                 procVars, recVars, bridge, cl>>

\* a pass whose rejection also clears the timer
PassThrowsStopsTimer(s) ==
  /\ backend = "azure"
  /\ sched.failed < MaxFailures
  /\ sweeps[s].pc = "ensure"
  /\ sweeps' = [sweeps EXCEPT ![s] = NoPass]
  /\ sched' = [sched EXCEPT !.failed = @ + 1, !.timers = 0,
                            !.cleanupInterval = 0]
  /\ UNCHANGED <<codec, removed, page, animations, http, api, owned, opts, shots, backend, now, jobs, created,
                 procVars, recVars, bridge, cl>>

\* ensureTable or the listEntities query fails: cleanup's promise rejects and
\* the .catch at the call logs the error
PassThrows(s) ==
  /\ backend = "azure"
  /\ sched.failed < MaxFailures
  /\ sweeps[s].pc = "ensure"
  /\ sweeps' = [sweeps EXCEPT ![s] = NoPass]
  /\ sched' = [sched EXCEPT !.failed = @ + 1]
  /\ UNCHANGED <<codec, removed, page, animations, http, api, owned, opts, shots, backend, now, jobs, created,
                 procVars, recVars, bridge, cl>>

\* ------------------------------------------ the animation control script
\* animations on the page, and calls of window.__seekTo followed
MaxAnimations == 2
MaxSeeks == 3

\* values a number cannot take: timing.iterations === Infinity, the duration
\* "auto" of an effect without one, and NaN
Infinity == -1
AutoDuration == -2
NaN == -3

AnimIds == 1..MaxAnimations

\* getTiming() of the animations a page may run, in milliseconds
Durations == {0, 100, AutoDuration}
IterationCounts == {0, 1, 2, Infinity}
Delays == {0, 50}

\* the times __seekTo is called with
SeekTimes == {0, 40, 120, 200, 280}

\* an animation without an effect
NoEffect ==
  [effect |-> FALSE, duration |-> 0, iterations |-> 1, delay |-> 0,
   currentTime |-> 0, seekable |-> TRUE]

\* a paused animation with an effect
Paused(duration, iterations, delay) ==
  [effect |-> TRUE, duration |-> duration, iterations |-> iterations,
   delay |-> delay, currentTime |-> 0, seekable |-> TRUE]

\* an animation whose currentTime setter throws whatever it is given
Unseekable(a) == [a EXCEPT !.seekable = FALSE]

\* document.getAnimations() on the pages followed
PausedAnimations ==
  {NoEffect, Unseekable(NoEffect)} \cup
  {Paused(d, i, y) : d \in Durations, i \in IterationCounts, y \in Delays} \cup
  {Unseekable(Paused(100, 1, 0)), Unseekable(Paused(100, Infinity, 50))}

\* before the script runs: window.__animations is not set
NoAnimations ==
  [injected |-> FALSE, list |-> <<>>, seeks |-> 0, timeMs |-> 0,
   raised |-> FALSE]

\* x || fallback, for a number x
OrElse(x, fallback) == IF x = 0 THEN fallback ELSE x

\* a product or sum with "auto" or NaN in it is NaN
Times(x, y) == IF x < 0 \/ y < 0 THEN NaN ELSE x * y
Plus(x, y) == IF x < 0 \/ y < 0 THEN NaN ELSE x + y

\* Math.min
MathMin(x, y) == IF x < 0 \/ y < 0 THEN NaN ELSE IF x <= y THEN x ELSE y

\* maxTime
MaxTimeOf(timing) ==
  LET iterationDuration == OrElse(timing.duration, 0)
  IN IF timing.iterations = Infinity
       THEN iterationDuration
       ELSE Plus(Times(iterationDuration, OrElse(timing.iterations, 1)),
                 OrElse(timing.delay, 0))

\* a.currentTime = value: the setter throws for a value that is not a finite
\* number, and for an animation that cannot be seeked
SetterThrows(a, value) == value = NaN \/ ~a.seekable

\* the value the try block assigns
Target(a, timeMs) ==
  IF a.effect THEN MathMin(timeMs, MaxTimeOf(a)) ELSE timeMs

\* the try block of __seekTo's callback: the animation after it, and whether
\* it threw
SeekBody(a, timeMs) ==
  IF SetterThrows(a, Target(a, timeMs))
    THEN [anim |-> a, thrown |-> TRUE]
    ELSE [anim |-> [a EXCEPT !.currentTime = Target(a, timeMs)],
          thrown |-> FALSE]

\* the callback without its try / catch
SeekOneUncaught(a, timeMs) == SeekBody(a, timeMs)

\* __seekTo's callback: the catch block is empty, so the callback returns
\* normally whatever the try block did
SeekOne(a, timeMs) == [anim |-> SeekBody(a, timeMs).anim, thrown |-> FALSE]

\* window.__animations.forEach(callback) from index a on: an exception of
\* the callback ends the loop and leaves forEach
RECURSIVE ForEach(_, _, _)
ForEach(list, a, timeMs) ==
  IF a > Len(list) THEN [list |-> list, raised |-> FALSE]
  ELSE LET r == SeekOne(list[a], timeMs)
           after == [list EXCEPT ![a] = r.anim]
       IN IF r.thrown THEN [list |-> after, raised |-> TRUE]
          ELSE ForEach(after, a + 1, timeMs)

\* page.evaluate(ANIMATION_CONTROL_SCRIPT): the animations are collected and
\* paused
InjectScript ==
  /\ ~animations.injected
  /\ \E list \in [AnimIds -> PausedAnimations] :
       animations' = [injected |-> TRUE, list |-> list, seeks |-> 0,
                      timeMs |-> 0, raised |-> FALSE]
  /\ UNCHANGED <<codec, removed, page, sched, sweeps, http, api, owned, opts, shots, backend, now,
                 jobs, created, procVars, recVars, bridge, cl>>

\* window.__seekTo(timeMs)
SeekTo(timeMs) ==
  /\ animations.injected
  /\ animations.seeks < MaxSeeks
  /\ ~animations.raised
  /\ LET done == ForEach(animations.list, 1, timeMs)
     IN animations' = [animations EXCEPT
          !.list = done.list,
          !.seeks = @ + 1,
          !.timeMs = timeMs,
          !.raised = done.raised]
  /\ UNCHANGED <<codec, removed, page, sched, sweeps, http, api, owned, opts, shots, backend, now,
                 jobs, created, procVars, recVars, bridge, cl>>

\* ------------------------------------------ the JobStore interface, call by call
\* what a call of a JobStore method gives back: a Job, null, a boolean, a
\* count, or an exception
ReturnsJob(job) == [kind |-> "job", job |-> job, flag |-> FALSE, count |-> 0]
ReturnsNull == [kind |-> "null", job |-> Absent, flag |-> FALSE, count |-> 0]
ReturnsFlag(b) == [kind |-> "boolean", job |-> Absent, flag |-> b, count |-> 0]
ReturnsCount(n) == [kind |-> "count", job |-> Absent, flag |-> FALSE, count |-> n]
Throws == [kind |-> "throws", job |-> Absent, flag |-> FALSE, count |-> 0]
NoCall == [kind |-> "none", job |-> Absent, flag |-> FALSE, count |-> 0]

EmptyStore == [id \in JobIds |-> Absent]

\* InMemoryJobStore.create: this.jobs.set(job.id, fullJob)
InMemoryCreate(store, id, t) ==
  [store |-> [store EXCEPT ![id] = NewJob(id, t)],
   out |-> ReturnsJob(NewJob(id, t))]

\* AzureTableJobStore.create: createEntity answers 409 for a row key in use
AzureCreate(store, id, t) ==
  IF IsAbsent(store[id])
    THEN [store |-> [store EXCEPT ![id] = JobToEntity(NewJob(id, t))],
          out |-> ReturnsJob(NewJob(id, t))]
    ELSE [store |-> store, out |-> Throws]

\* InMemoryJobStore.get
InMemoryGet(store, id) ==
  [store |-> store,
   out |-> IF IsAbsent(store[id]) THEN ReturnsNull ELSE ReturnsJob(store[id])]

\* AzureTableJobStore.get: getEntity, 404 is null
AzureGet(store, id) ==
  [store |-> store,
   out |-> IF IsAbsent(store[id]) THEN ReturnsNull
           ELSE ReturnsJob(EntityToJob(store[id]))]

\* InMemoryJobStore.update
InMemoryUpdate(store, id, updates, t) ==
  IF IsAbsent(store[id]) THEN [store |-> store, out |-> ReturnsNull]
  ELSE LET updatedJob == Merge(store[id], updates, t)
       IN [store |-> [store EXCEPT ![id] = updatedJob],
           out |-> ReturnsJob(updatedJob)]

\* AzureTableJobStore.update, with no other call between its get and its Replace
AzureUpdate(store, id, updates, t) ==
  LET existingJob == AzureGet(store, id).out
  IN IF existingJob.kind = "null" THEN [store |-> store, out |-> ReturnsNull]
     ELSE LET updatedJob == Merge(existingJob.job, updates, t)
          IN [store |-> [store EXCEPT ![id] = JobToEntity(updatedJob)],
              out |-> ReturnsJob(updatedJob)]

\* InMemoryJobStore.delete
InMemoryDelete(store, id) ==
  LET existed == ~IsAbsent(store[id])
  IN [store |-> [store EXCEPT ![id] = Absent], out |-> ReturnsFlag(existed)]

AzureDeleteRethrows404(store, id) ==
  IF IsAbsent(store[id]) THEN [store |-> store, out |-> Throws]
  ELSE [store |-> [store EXCEPT ![id] = Absent], out |-> ReturnsFlag(TRUE)]

\* AzureTableJobStore.delete: deleteEntity, 404 is false
AzureDelete(store, id) ==
  IF IsAbsent(store[id]) THEN [store |-> store, out |-> ReturnsFlag(FALSE)]
  ELSE [store |-> [store EXCEPT ![id] = Absent], out |-> ReturnsFlag(TRUE)]

\* InMemoryJobStore.cleanup
InMemoryCleanup(store, maxAgeMs, t) ==
  LET r == MemSweep([store |-> store, removed |-> {}, deleted |-> 0],
                    JobIds, t - maxAgeMs)
  IN [store |-> r.store, out |-> ReturnsCount(r.deleted)]

\* AzureTableJobStore.cleanup, with no other call between its query and its
\* deletes
AzureCleanup(store, maxAgeMs, t) ==
  LET rows == {id \in JobIds :
                 ~IsAbsent(store[id]) /\ Expired(store[id], t - maxAgeMs)}
  IN [store |-> [id \in JobIds |-> IF id \in rows THEN Absent ELSE store[id]],
      out |-> ReturnsCount(Cardinality(rows))]

\* the update payloads the calls draw from: those processVideoJob sends
Payloads == {"processing", "recording", "completed", "failed"}

FieldsOf(payload) ==
  CASE payload = "processing" -> ProcessingFields
    [] payload = "recording" -> RecordingFields
    [] payload = "completed" -> CompletedFields("local", None)
    [] OTHER -> FailedFields(RecorderErrMsg)

\* no call made yet: both stores as constructed. mem is InMemoryJobStore's
\* map, tab the table behind AzureTableJobStore; gone is the ids a delete has
\* removed
ApiIdle ==
  [mem |-> EmptyStore, tab |-> EmptyStore,
   call |-> [op |-> "none", id |-> 0, payload |-> None, maxAgeMs |-> 0],
   memOut |-> NoCall, tabOut |-> NoCall, calls |-> 0, gone |-> {}]

\* the same call made on both stores at the same time
Called(op, id, payload, maxAgeMs, m, t) ==
  /\ api.calls < MaxCalls
  /\ api' = [mem |-> m.store, tab |-> t.store,
             call |-> [op |-> op, id |-> id, payload |-> payload,
                       maxAgeMs |-> maxAgeMs],
             memOut |-> m.out, tabOut |-> t.out, calls |-> api.calls + 1,
             gone |-> IF op = "delete" /\ m.out.flag /\ t.out.flag
                        THEN api.gone \cup {id}
                        ELSE api.gone]
  /\ UNCHANGED <<codec, removed, page, animations, sched, sweeps, http, owned, opts, shots, backend, now, jobs, created, procVars,
                 recVars, bridge, cl>>

ApiCreate(id) ==
  Called("create", id, None, 0,
         InMemoryCreate(api.mem, id, now), AzureCreate(api.tab, id, now))

ApiGet(id) ==
  Called("get", id, None, 0, InMemoryGet(api.mem, id), AzureGet(api.tab, id))

ApiUpdate(id, payload) ==
  Called("update", id, payload, 0,
         InMemoryUpdate(api.mem, id, FieldsOf(payload), now),
         AzureUpdate(api.tab, id, FieldsOf(payload), now))

ApiDelete(id) ==
  Called("delete", id, None, 0,
         InMemoryDelete(api.mem, id), AzureDelete(api.tab, id))

ApiCleanup(maxAgeMs) ==
  Called("cleanup", 0, None, maxAgeMs,
         InMemoryCleanup(api.mem, maxAgeMs, now),
         AzureCleanup(api.tab, maxAgeMs, now))

\* ----------------------------------------------------------- specification
Init ==
  /\ backend \in Backends
  /\ now = 0
  /\ jobs = [j \in JobIds |-> Absent]
  /\ created = {}
  /\ ppc = [j \in JobIds |-> "idle"]
  /\ pstage = [j \in JobIds |-> "call"]
  /\ psnap = [j \in JobIds |-> Absent]
  /\ caught = [j \in JobIds |-> None]
  /\ videoUrl = [j \in JobIds |-> None]
  /\ blobUrl = [j \in JobIds |-> None]
  /\ thumbUrl = [j \in JobIds |-> None]
  /\ rpc = [j \in JobIds |-> "idle"]
  /\ frame = [j \in JobIds |-> 0]
  /\ ready = [j \in JobIds |-> FALSE]
  /\ acquired = [j \in JobIds |-> {}]
  /\ released = [j \in JobIds |-> {}]
  /\ relFailed = [j \in JobIds |-> {}]
  /\ rres = [j \in JobIds |-> Failure(None)]
  /\ raised = [j \in JobIds |-> FALSE]
  /\ ffmpeg = [j \in JobIds |-> "none"]
  /\ thumbRun = [j \in JobIds |-> "none"]
  /\ bridge = [j \in JobIds |-> {}]
  /\ cl = Idle
  /\ api = ApiIdle
  /\ codec = NoCodec
  /\ removed = [j \in JobIds |-> {}]
  /\ page = [j \in JobIds |-> NoPage]
  /\ animations = NoAnimations
  /\ sched = NoSched
  /\ sweeps = [s \in Slots |-> NoPass]
  /\ http = NoResponse
  /\ owned = [j \in JobIds |-> NoHandles]
  /\ opts = [j \in JobIds |-> DefaultOptions]
  /\ shots = [j \in JobIds |-> <<>>]

Next ==
  \/ \E j \in Followed : CreateVideo(j)
  \/ \E j \in JobIds : PUpdateMem(j)
  \/ \E j \in JobIds : PUpdateGet(j)
  \/ \E j \in JobIds : PUpdatePut(j)
  \/ \E j \in JobIds : PUpdateThrow(j)
  \/ \E j \in JobIds : PUpdateLost(j)
  \/ \E j \in JobIds : Prep(j)
  \/ \E j \in JobIds : CallRecorder(j)
  \/ \E j \in JobIds : RecorderReturned(j)
  \/ \E j \in JobIds : UploadVideo(j)
  \/ \E j \in JobIds : LocalFallback(j)
  \/ \E j \in JobIds : UploadThumb(j)
  \/ \E j \in JobIds : \E w \in bridge[j] : BridgeGet(j, w)
  \/ \E j \in JobIds : \E w \in bridge[j] : BridgePut(j, w)
  \/ \E j \in JobIds : \E w \in bridge[j] : BridgeFail(j, w)
  \/ \E j \in JobIds : RecStep(j)
  \/ \E j \in JobIds : RecThrow(j)
  \/ \E j \in JobIds : PageReady(j)
  \/ \E j \in JobIds : WaitReady(j)
  \/ \E j \in JobIds : ReadyTimeout(j)
  \/ \E j \in JobIds : Mkdtemp(j)
  \/ \E j \in JobIds : Stitch(j)
  \/ \E j \in JobIds : Thumbnail(j)
  \/ \E j \in JobIds : Release(j)
  \/ \E j \in JobIds : ReleaseThrow(j)
  \/ \E j \in JobIds : ReportProgress(j)

Spec == Init /\ [][Next]_vars

\* ------------------------------------------- the store under cleanup and time
\* SpecStore starts where job 1's recorder has just returned (a state of Spec)
\* and follows the store from there: the processor's last updates, the
\* progress updates still in flight, the first update of a job just created,
\* the clock and the cleanup passes.
AfterRecording == {"updFailed", "updCompleted"}

\* job 1 as the store holds it when its recorder has returned
RecordedJob(site) ==
  LET processing == Merge(NewJob(1, 0), ProcessingFields, 0)
      recording == Merge(processing, RecordingFields, 0)
  IN IF backend = "memory"
       THEN IF site = "updFailed"
              THEN Merge(recording, [progress |-> PhaseMessage("reportInit"),
                                     progressPercent |-> PhasePercent("reportInit", 0, 0)], 0)
              ELSE Merge(recording, UploadingVideoFields, 0)
       ELSE JobToEntity(IF site = "updFailed" THEN recording
                        ELSE Merge(recording, UploadingVideoFields, 0))

\* the progress update the recorder's last report left in flight
LastReport(site) ==
  LET pc == IF site = "updFailed" THEN "reportInit" ELSE "reportComplete"
  IN BridgeWrite([progress |-> PhaseMessage(pc),
                  progressPercent |-> PhasePercent(pc, 0, 0)])

\* job 2: not created yet, or just created and its processor spawned
Fresh == {"idle", "upd10"}

InitStore ==
  /\ backend \in Backends
  /\ now = 0
  /\ \E site \in AfterRecording, fresh \in Fresh :
       /\ created = {1} \cup {j \in {2} : fresh = "upd10"}
       /\ ppc = [j \in JobIds |->
                   IF j = 1 THEN site ELSE IF j = 2 THEN fresh ELSE "idle"]
       /\ jobs = [j \in JobIds |->
                    IF j = 1 THEN RecordedJob(site)
                    ELSE IF j = 2 /\ fresh = "upd10" THEN Stored(NewJob(2, 0))
                    ELSE Absent]
       /\ rres = [j \in JobIds |->
                    IF j = 1 /\ site = "updFailed" THEN Failure(RecorderErrMsg)
                    ELSE IF j = 1 THEN Success(FALSE)
                    ELSE Failure(None)]
       /\ videoUrl = [j \in JobIds |->
                        IF j = 1 /\ site = "updCompleted" THEN "local" ELSE None]
       /\ blobUrl = [j \in JobIds |->
                       IF j = 1 /\ site = "updCompleted" /\ BlobEnabled
                         THEN "null" ELSE None]
       /\ ffmpeg = [j \in JobIds |->
                      IF j = 1 /\ site = "updCompleted" THEN "ok" ELSE "none"]
       /\ thumbRun = [j \in JobIds |->
                        IF j = 1 /\ site = "updCompleted" THEN "exit" ELSE "none"]
       /\ \E inflight \in IF backend = "azure" THEN {{}, {LastReport(site)}} ELSE {{}} :
            bridge = [j \in JobIds |-> IF j = 1 THEN inflight ELSE {}]
  /\ raised = [j \in JobIds |-> FALSE]
  /\ pstage = [j \in JobIds |-> "call"]
  /\ psnap = [j \in JobIds |-> Absent]
  /\ caught = [j \in JobIds |-> None]
  /\ thumbUrl = [j \in JobIds |-> None]
  /\ rpc = [j \in JobIds |-> "idle"]
  /\ frame = [j \in JobIds |-> 0]
  /\ ready = [j \in JobIds |-> FALSE]
  /\ acquired = [j \in JobIds |-> {}]
  /\ released = [j \in JobIds |-> {}]
  /\ relFailed = [j \in JobIds |-> {}]
  /\ cl = Idle
  /\ api = ApiIdle
  /\ codec = NoCodec
  /\ removed = [j \in JobIds |-> {}]
  /\ page = [j \in JobIds |-> NoPage]
  /\ animations = NoAnimations
  /\ sched = NoSched
  /\ sweeps = [s \in Slots |-> NoPass]
  /\ http = NoResponse
  /\ owned = [j \in JobIds |-> NoHandles]
  /\ opts = [j \in JobIds |-> DefaultOptions]
  /\ shots = [j \in JobIds |-> <<>>]

NextStore ==
  \/ Tick
  \/ \E j \in JobIds : PUpdateMem(j)
  \/ \E j \in JobIds : PUpdateGet(j)
  \/ \E j \in JobIds : PUpdatePut(j)
  \/ \E j \in JobIds : PUpdateThrow(j)
  \/ \E j \in JobIds : PUpdateLost(j)
  \/ \E j \in JobIds : \E w \in bridge[j] : BridgeGet(j, w)
  \/ \E j \in JobIds : \E w \in bridge[j] : BridgePut(j, w)
  \/ \E j \in JobIds : \E w \in bridge[j] : BridgeFail(j, w)
  \/ \E m \in 0..MaxAge : CleanupMem(m)
  \/ \E m \in 0..MaxAge : CleanupList(m)
  \/ \E j \in JobIds : CleanupDelete(j)
  \/ \E j \in JobIds : CleanupDeleteFail(j)
  \/ \E j \in JobIds : CleanupDeleteLost(j)
  \/ CleanupListed
  \/ CleanupReturn

SpecStore == InitStore /\ [][NextStore]_vars

\* ------------------------------------------------ two jobs in flight at once
\* the two create-video requests SpecPair follows
Pair == {1, 2}

\* the jobs SpecPair follows into recordStory: both on the volatile backend;
\* on the durable backend job 1, with job 2 followed up to its recordStory call
Records(j) == backend = "memory" \/ j = 1

NextPair ==
  \/ \E j \in Pair : CreateVideo(j)
  \/ \E j \in Pair : PUpdateMem(j)
  \/ \E j \in Pair : PUpdateGet(j)
  \/ \E j \in Pair : PUpdatePut(j)
  \/ \E j \in Pair : PUpdateThrow(j)
  \/ \E j \in Pair : PUpdateLost(j)
  \/ \E j \in Pair : Prep(j)
  \/ \E j \in Pair : Records(j) /\ CallRecorder(j)
  \/ \E j \in Pair : RecorderReturned(j)
  \/ \E j \in Pair : UploadVideo(j)
  \/ \E j \in Pair : LocalFallback(j)
  \/ \E j \in Pair : UploadThumb(j)
  \/ \E j \in Pair : \E w \in bridge[j] : BridgeGet(j, w)
  \/ \E j \in Pair : \E w \in bridge[j] : BridgePut(j, w)
  \/ \E j \in Pair : \E w \in bridge[j] : BridgeFail(j, w)
  \/ \E j \in Pair : RecStep(j)
  \/ \E j \in Pair : RecThrow(j)
  \/ \E j \in Pair : PageReady(j)
  \/ \E j \in Pair : WaitReady(j)
  \/ \E j \in Pair : ReadyTimeout(j)
  \/ \E j \in Pair : Mkdtemp(j)
  \/ \E j \in Pair : Stitch(j)
  \/ \E j \in Pair : Thumbnail(j)
  \/ \E j \in Pair : Release(j)
  \/ \E j \in Pair : ReleaseThrow(j)
  \/ \E j \in Pair : ReportProgress(j)

SpecPair == Init /\ [][NextPair]_vars

\* ------------------------------------------------------ the capture schedule
\* the options the direct calls of recordStory draw from: the duration of
\* Spec, twice and seven times that, and none at all, at the default frame
\* rate; the duration of Spec at twice the default rate
CaptureOptions ==
  {[duration |-> d, frameRate |-> FrameRate] :
     d \in {0, DurationMs, 2 * DurationMs, 7 * DurationMs}}
  \cup {[duration |-> DurationMs, frameRate |-> 2 * FrameRate]}

\* two calls of recordStory with the same options, made by a caller that
\* passes duration and frameRate and no progress callback: no job, no store
\* traffic. Both have launched their browser and opened their page, the pages
\* have signalled ready, and each call is about to make its frame directory
InitCapture ==
  /\ backend = "memory"
  /\ now = 0
  /\ jobs = EmptyStore
  /\ created = {}
  /\ ppc = [j \in JobIds |-> "idle"]
  /\ pstage = [j \in JobIds |-> "call"]
  /\ psnap = [j \in JobIds |-> Absent]
  /\ caught = [j \in JobIds |-> None]
  /\ videoUrl = [j \in JobIds |-> None]
  /\ blobUrl = [j \in JobIds |-> None]
  /\ thumbUrl = [j \in JobIds |-> None]
  /\ rpc = [j \in JobIds |-> IF j \in Pair THEN "mkdtemp" ELSE "idle"]
  /\ frame = [j \in JobIds |-> 0]
  /\ ready = [j \in JobIds |-> j \in Pair]
  /\ acquired = [j \in JobIds |-> IF j \in Pair THEN {"browser", "page"} ELSE {}]
  /\ released = [j \in JobIds |-> {}]
  /\ relFailed = [j \in JobIds |-> {}]
  /\ rres = [j \in JobIds |-> Failure(None)]
  /\ raised = [j \in JobIds |-> FALSE]
  /\ ffmpeg = [j \in JobIds |-> "none"]
  /\ thumbRun = [j \in JobIds |-> "none"]
  /\ bridge = [j \in JobIds |-> {}]
  /\ cl = Idle
  /\ api = ApiIdle
  /\ codec = NoCodec
  /\ removed = [j \in JobIds |-> {}]
  /\ page = [j \in JobIds |-> NoPage]
  /\ animations = NoAnimations
  /\ sched = NoSched
  /\ sweeps = [s \in Slots |-> NoPass]
  /\ http = NoResponse
  /\ owned = [j \in JobIds |->
                IF j \in Pair THEN [NoHandles EXCEPT !["browser"] = j, !["page"] = j]
                ELSE NoHandles]
  /\ \E o \in CaptureOptions : opts = [j \in JobIds |-> o]
  /\ shots = [j \in JobIds |-> <<>>]

NextCapture ==
  \/ Tick
  \/ \E j \in Pair : RecStep(j)
  \/ \E j \in Pair : RecThrow(j)
  \/ \E j \in Pair : Mkdtemp(j)
  \/ \E j \in Pair : Stitch(j)
  \/ \E j \in Pair : Thumbnail(j)
  \/ \E j \in Pair : Release(j)
  \/ \E j \in Pair : ReleaseThrow(j)
  \/ \E j \in Pair : ReportProgress(j)

SpecCapture == InitCapture /\ [][NextCapture]_vars

\* ------------------------------------------------- the interface specification
\* both stores empty, no job in the service; calls of the five JobStore
\* methods with ids, payloads and ages from small sets, the clock running
InitApi ==
  /\ backend = "memory"
  /\ now = 0
  /\ jobs = EmptyStore
  /\ created = {}
  /\ ppc = [j \in JobIds |-> "idle"]
  /\ pstage = [j \in JobIds |-> "call"]
  /\ psnap = [j \in JobIds |-> Absent]
  /\ caught = [j \in JobIds |-> None]
  /\ videoUrl = [j \in JobIds |-> None]
  /\ blobUrl = [j \in JobIds |-> None]
  /\ thumbUrl = [j \in JobIds |-> None]
  /\ rpc = [j \in JobIds |-> "idle"]
  /\ frame = [j \in JobIds |-> 0]
  /\ ready = [j \in JobIds |-> FALSE]
  /\ acquired = [j \in JobIds |-> {}]
  /\ released = [j \in JobIds |-> {}]
  /\ relFailed = [j \in JobIds |-> {}]
  /\ rres = [j \in JobIds |-> Failure(None)]
  /\ raised = [j \in JobIds |-> FALSE]
  /\ ffmpeg = [j \in JobIds |-> "none"]
  /\ thumbRun = [j \in JobIds |-> "none"]
  /\ bridge = [j \in JobIds |-> {}]
  /\ cl = Idle
  /\ api = ApiIdle
  /\ codec = NoCodec
  /\ removed = [j \in JobIds |-> {}]
  /\ page = [j \in JobIds |-> NoPage]
  /\ animations = NoAnimations
  /\ sched = NoSched
  /\ sweeps = [s \in Slots |-> NoPass]
  /\ http = NoResponse
  /\ owned = [j \in JobIds |-> NoHandles]
  /\ opts = [j \in JobIds |-> DefaultOptions]
  /\ shots = [j \in JobIds |-> <<>>]

NextApi ==
  \/ Tick
  \/ \E id \in JobIds : ApiCreate(id)
  \/ \E id \in JobIds : ApiGet(id)
  \/ \E id \in JobIds : \E payload \in Payloads : ApiUpdate(id, payload)
  \/ \E id \in JobIds : ApiDelete(id)
  \/ \E maxAgeMs \in 0..MaxAge : ApiCleanup(maxAgeMs)

SpecApi == InitApi /\ [][NextApi]_vars

\* ------------------------------------------------------ the HTTP API
\* requests and polls while a job's processor starts: its first writes, the
\* call of the recorder, and the catch block when a write throws
NextHttp ==
  \/ \E j \in Followed, body \in Bodies : HandleCreateVideo(j, body)
  \/ \E j \in JobIds : Poll(j)
  \/ \E j \in JobIds : PollThrows(j)
  \/ \E j \in JobIds : PUpdateMem(j)
  \/ \E j \in JobIds : PUpdateGet(j)
  \/ \E j \in JobIds : PUpdatePut(j)
  \/ \E j \in JobIds : PUpdateThrow(j)
  \/ \E j \in JobIds : PUpdateLost(j)
  \/ \E j \in JobIds : Prep(j)
  \/ \E j \in JobIds : CallRecorder(j)

SpecHttp == Init /\ [][NextHttp]_vars

\* ------------------------------------------------- the scheduler at work
NextSched ==
  \/ StartJobCleanup
  \/ IntervalElapses
  \/ \E j \in Followed, status \in {"processing", "completed"} :
       JobRuns(j, status)
  \/ \E s \in Slots : PassList(s)
  \/ \E s \in Slots, j \in JobIds : PassDelete(s, j)
  \/ \E s \in Slots, j \in JobIds : PassDeleteGone(s, j)
  \/ \E s \in Slots, j \in JobIds : PassDeleteFail(s, j)
  \/ \E s \in Slots, j \in JobIds : PassDeleteLost(s, j)
  \/ \E s \in Slots : PassListed(s)
  \/ \E s \in Slots : PassReturn(s)
  \/ \E s \in Slots : PassThrows(s)

SpecSched == Init /\ [][NextSched]_vars

\* --------------------------------------------------- the hooks and the timer
\* one job as in Spec, with a page that calls storyReady and storyDone when
\* and as often as it likes, and the ready timer followed until it fires
NextHooks ==
  \/ \E j \in Followed : CreateVideo(j)
  \/ \E j \in JobIds : PUpdateMem(j)
  \/ \E j \in JobIds : PUpdateGet(j)
  \/ \E j \in JobIds : PUpdatePut(j)
  \/ \E j \in JobIds : PUpdateThrow(j)
  \/ \E j \in JobIds : PUpdateLost(j)
  \/ \E j \in JobIds : Prep(j)
  \/ \E j \in JobIds : CallRecorder(j)
  \/ \E j \in JobIds : RecorderReturned(j)
  \/ \E j \in JobIds : LocalFallback(j)
  \/ \E j \in JobIds : UploadVideo(j)
  \/ \E j \in JobIds : UploadThumb(j)
  \/ \E j \in JobIds : \E w \in bridge[j] : BridgeGet(j, w)
  \/ \E j \in JobIds : \E w \in bridge[j] : BridgePut(j, w)
  \/ \E j \in JobIds : \E w \in bridge[j] : BridgeFail(j, w)
  \/ \E j \in JobIds : RecStep(j)
  \/ \E j \in JobIds : RecThrow(j)
  \/ \E j \in JobIds : ReadyCall(j)
  \/ \E j \in JobIds : DoneCall(j)
  \/ \E j \in JobIds : TimerFires(j)
  \/ \E j \in JobIds : WaitReady(j)
  \/ \E j \in JobIds : Mkdtemp(j)
  \/ \E j \in JobIds : Stitch(j)
  \/ \E j \in JobIds : Thumbnail(j)
  \/ \E j \in JobIds : Release(j)
  \/ \E j \in JobIds : ReleaseThrow(j)
  \/ \E j \in JobIds : ReportProgress(j)

SpecHooks == Init /\ [][NextHooks]_vars

\* ------------------------------------------------- the page under recording
\* one call of recordStory that has exposed its hooks and is about to load
\* the page, with the page running initStory; or the same page opened in a
\* browser that has no hooks
InitPage ==
  /\ backend = "memory"
  /\ now = 0
  /\ jobs = EmptyStore
  /\ created = {}
  /\ ppc = [j \in JobIds |-> "idle"]
  /\ pstage = [j \in JobIds |-> "call"]
  /\ psnap = [j \in JobIds |-> Absent]
  /\ caught = [j \in JobIds |-> None]
  /\ videoUrl = [j \in JobIds |-> None]
  /\ blobUrl = [j \in JobIds |-> None]
  /\ thumbUrl = [j \in JobIds |-> None]
  /\ frame = [j \in JobIds |-> 0]
  /\ ready = [j \in JobIds |-> FALSE]
  /\ released = [j \in JobIds |-> {}]
  /\ relFailed = [j \in JobIds |-> {}]
  /\ rres = [j \in JobIds |-> Failure(None)]
  /\ raised = [j \in JobIds |-> FALSE]
  /\ ffmpeg = [j \in JobIds |-> "none"]
  /\ thumbRun = [j \in JobIds |-> "none"]
  /\ bridge = [j \in JobIds |-> {}]
  /\ cl = Idle
  /\ api = ApiIdle
  /\ codec = NoCodec
  /\ removed = [j \in JobIds |-> {}]
  /\ animations = NoAnimations
  /\ sched = NoSched
  /\ sweeps = [s \in Slots |-> NoPass]
  /\ http = NoResponse
  /\ opts = [j \in JobIds |-> DefaultOptions]
  /\ shots = [j \in JobIds |-> <<>>]
  /\ \E hooks \in BOOLEAN :
       /\ rpc = [j \in JobIds |-> IF j \in Followed /\ hooks THEN "goto" ELSE "idle"]
       /\ acquired = [j \in JobIds |->
                        IF j \in Followed /\ hooks THEN {"browser", "page"} ELSE {}]
       /\ owned = [j \in JobIds |->
                     IF j \in Followed /\ hooks
                       THEN [NoHandles EXCEPT !["browser"] = j, !["page"] = j]
                       ELSE NoHandles]
       /\ page = [j \in JobIds |->
                    IF j \in Followed
                      THEN [NoPage EXCEPT !.ipc = "data", !.hooks = hooks]
                      ELSE NoPage]

NextPage ==
  \/ \E j \in Followed : LoadData(j)
  \/ \E j \in Followed : Render(j)
  \/ \E j \in Followed : SignalReady(j)
  \/ \E j \in Followed : StartAnimations(j)
  \/ \E j \in Followed : Animate(j)
  \/ \E j \in Followed : SignalDone(j)
  \/ \E j \in Followed : Recover(j)
  \/ \E j \in Followed : Elapse(j)
  \/ \E j \in Followed : HostStep(j)
  \/ \E j \in Followed : RecThrow(j)
  \/ \E j \in Followed : WaitReady(j)
  \/ \E j \in Followed : TimerFires(j)
  \/ \E j \in Followed : Mkdtemp(j)
  \/ \E j \in Followed : Stitch(j)
  \/ \E j \in Followed : Thumbnail(j)
  \/ \E j \in Followed : Release(j)
  \/ \E j \in Followed : ReleaseThrow(j)
  \/ \E j \in Followed : ReportProgress(j)

SpecPage == InitPage /\ [][NextPage]_vars

\* ------------------------------------------------- seeking the animations
NextSeek ==
  \/ InjectScript
  \/ \E timeMs \in SeekTimes : SeekTo(timeMs)

SpecSeek == Init /\ [][NextSeek]_vars

\* -------------------------------------------------------------- properties
Finished(j) == ppc[j] \in {"done", "rejected"}

Rank(status) ==
  CASE status = "pending" -> 0
    [] status = "processing" -> 1
    [] OTHER -> 2

\* a status read through get() and the one read next
Forward(before, after) ==
  /\ Rank(before) <= Rank(after)
  /\ before \in Terminal => after = before

\* C1: for every job, on either backend and under any interleaving of the
\* processor's awaited updates and the un-awaited progress updates, the
\* status read through get() only moves pending -> processing -> completed
\* or failed: never backwards, never out of a terminal status, never from
\* one terminal status to the other.
C1_StatusOnlyMovesForward ==
  [][\A j \in JobIds :
       (~IsAbsent(Get(j)) /\ ~IsAbsent(Get(j)'))
         => Forward(Get(j).status, Get(j)'.status)]_vars

\* C2: once the background processor of a created job has ended, on any of
\* its paths (the recorder failed, an upload failed, a store update threw),
\* the job is completed or failed: none is left pending or processing.
C2_EveryJobEndsTerminal ==
  \A j \in created : Finished(j) => Get(j).status \in Terminal

\* C3: in every reachable state of a job record the result is set only when
\* the status is completed, the error only when it is failed, a terminal
\* job has exactly one of the two and a pending or processing job neither;
\* the poll snapshot carries a url only when completed and an error only
\* when failed.
C3_ResultAndErrorMatchStatus ==
  \A j \in JobIds :
    ~IsAbsent(Get(j)) =>
      LET job == Get(j)
          snap == HandleGetJob(j)
      IN /\ job.result # NoResult => job.status = "completed"
         /\ job.error # None => job.status = "failed"
         /\ job.status \in Terminal => ((job.result # NoResult) # (job.error # None))
         /\ job.status \notin Terminal => (job.result = NoResult /\ job.error = None)
         /\ snap.url # None => snap.status = "completed"
         /\ snap.thumbnailUrl # None => snap.status = "completed"
         /\ snap.error # None => snap.status = "failed"

\* C6: when the 30 s ready timer fires before the page has called the ready
\* hook, recordStory returns a failure whose error names the ready timeout,
\* and the job ends failed carrying that error.
C6_ReadyTimeoutFailsJob ==
  \A j \in JobIds :
    rres[j].error = ReadyTimeoutMsg =>
      /\ rpc[j] = "returned" => ~rres[j].success
      /\ Finished(j) => (Get(j).status = "failed" /\ Get(j).error = ReadyTimeoutMsg)

\* C7: recordStory never rejects; when an awaited call of its try block has
\* thrown, it returns a result with success = false and an error message.
C7_RecordStoryNeverRejects ==
  \A j \in JobIds :
    /\ rpc[j] # "rejected"
    /\ (rpc[j] = "returned" /\ raised[j]) =>
         (~rres[j].success /\ rres[j].error # None)

C7_Witness ==
  \E j \in JobIds : rpc[j] = "returned" /\ raised[j] /\ rres[j].error = RecorderErrMsg

\* C8: when recordStory returns, on a success or a failure path, the release
\* of every acquired resource (page, browser, scratch directory) has been
\* called: each is released unless its own release threw, a release that
\* throws does not stop the later ones, is not re-raised, and no step of the
\* finally block changes the result.
C8_EveryResourceReleased ==
  /\ [](\A j \in JobIds :
          /\ rpc[j] # "rejected"
          /\ rpc[j] = "returned" =>
               /\ acquired[j] \subseteq released[j] \cup relFailed[j]
               /\ released[j] \cap relFailed[j] = {})
  /\ [][\A j \in JobIds : rpc[j] \in FinallySteps => rres'[j] = rres[j]]_vars

C8_Witness ==
  \E j \in JobIds :
    /\ rpc[j] = "returned"
    /\ acquired[j] = Resources
    /\ "page" \in relFailed[j]
    /\ {"browser", "tempDir"} \subseteq released[j]

\* C9: when the encoder run for the main video ends with a non-zero exit
\* status, the job ends failed, its error holds the encoder's diagnostic
\* output, and the job has no result.
C9_EncoderFailureFailsJob ==
  \A j \in JobIds :
    (ffmpeg[j] \in {"exit", "throw"} /\ Finished(j)) =>
      /\ Get(j).status = "failed"
      /\ Get(j).error = FFmpegFailedMsg
      /\ Get(j).result = NoResult

\* C10: when the thumbnail run fails, recordStory still returns success = true
\* with no thumbnail path, and the job completes with a video URL and no
\* thumbnail URL.
C10_ThumbnailFailureNotFatal ==
  \A j \in JobIds :
    thumbRun[j] \in {"exit", "throw"} =>
      /\ rpc[j] = "returned" => (rres[j].success /\ ~rres[j].thumbnailPath)
      /\ Finished(j) =>
           /\ Get(j).status = "completed"
           /\ Get(j).result.url # None
           /\ Get(j).result.thumbnailUrl = None

\* C4: a cleanup pass never removes a job whose status is pending or
\* processing, whatever maxAgeMs and the job's age, on either backend and
\* under any interleaving with the updates of the job: a record that leaves
\* the store was completed or failed in the state before.
C4_CleanupKeepsUnfinishedJobs ==
  [][\A j \in JobIds :
       (~IsAbsent(jobs[j]) /\ IsAbsent(jobs'[j])) => Get(j).status \in Terminal]_vars

\* a step of a cleanup pass changes no record but the one it removes
CleanupFrame ==
  cl' # cl =>
    \A j \in JobIds :
      jobs'[j] # jobs[j] => (IsAbsent(jobs'[j]) /\ j \in cl'.removed \ cl.removed)

\* C5 as stated: a pass removes exactly the records that were completed or
\* failed and modified before now - maxAgeMs when it started, changes no
\* other record, and returns the number of records it removed.
C5_CleanupRemovesExactlyExpired ==
  /\ [](cl.pc = "returning" =>
          /\ cl.removed = cl.old \cap cl.term
          /\ cl.deleted = Cardinality(cl.removed))
  /\ [][CleanupFrame]_vars

\* C5 as amended: a pass removes only records that were completed or failed
\* and modified before now - maxAgeMs when it started, changes no other
\* record, and returns the number of deletions that reported success, never
\* more than the records removed; on the volatile store it removes all of
\* those records and returns their number.
C5_CleanupRemovesOnlyExpired ==
  /\ [](cl.pc = "returning" =>
          /\ cl.removed \subseteq cl.old \cap cl.term
          /\ cl.deleted <= Cardinality(cl.removed)
          /\ backend = "memory" =>
               /\ cl.removed = cl.old \cap cl.term
               /\ cl.deleted = Cardinality(cl.removed))
  /\ [][CleanupFrame]_vars

C5_Witness ==
  /\ backend = "azure"
  /\ cl.pc = "returning"
  /\ Cardinality(cl.old \cap cl.term) = 2
  /\ Cardinality(cl.removed) = 1
  /\ cl.deleted = 1

\* C11: while a job is processing, the progress percent that successive polls
\* report stays within 0..100 and never decreases, across the processor's
\* stage updates and the recorder's progress updates up to complete at 100.
C11_PercentNeverDecreases ==
  [][\A j \in JobIds :
       LET before == HandleGetJob(j)
           after == HandleGetJob(j)'
       IN (/\ before.status = "processing" /\ after.status = "processing"
           /\ before.progressPercent # NoPct /\ after.progressPercent # NoPct)
            => /\ before.progressPercent \in 0..100
               /\ after.progressPercent \in 0..100
               /\ after.progressPercent >= before.progressPercent]_vars

\* C12: the update time that successive get() calls observe for one job never
\* decreases and is never earlier than the job's creation time, under any
\* interleaving of awaited and un-awaited updates, on both backends.
C12_UpdatedAtNeverDecreases ==
  [][\A j \in JobIds :
       (~IsAbsent(Get(j)) /\ ~IsAbsent(Get(j)'))
         => /\ Get(j)'.updatedAt >= Get(j).updatedAt
            /\ Get(j)'.updatedAt >= Get(j)'.createdAt]_vars

\* ------------------------------------------------- properties of the interface
\* the step is one call of the method op through the interface
Calls(op) == api'.calls = api.calls + 1 /\ api'.call.op = op

\* what get(id) returns from each store, as a Job or Absent
MemJob(a, id) == InMemoryGet(a.mem, id).out.job
TabJob(a, id) == AzureGet(a.tab, id).out.job

\* update's contract for one store: before and after are what get(id) returns
\* before and after the call, out is what the call gave back
UpdateContract(before, out, after, updates, t) ==
  IF IsAbsent(before) THEN out.kind = "null" /\ IsAbsent(after)
  ELSE /\ out.kind = "job"
       /\ \A f \in DOMAIN updates :
            out.job[f] = updates[f] /\ after[f] = updates[f]
       /\ \A f \in DOMAIN before \ (DOMAIN updates \cup {"updatedAt"}) :
            out.job[f] = before[f] /\ after[f] = before[f]
       /\ out.job.updatedAt = t /\ after.updatedAt = t

\* C13: update(id, fields) on an existing id returns and stores a record in
\* which every provided field has the provided value, every other field,
\* id and createdAt included, is unchanged, and updatedAt is the time of the
\* call; on an unknown id it returns not-found, creates no record and leaves
\* the store unchanged. Every other record is left alone in both cases.
C13_UpdateChangesOnlyProvidedFields ==
  [][Calls("update") =>
       LET id == api'.call.id
           updates == FieldsOf(api'.call.payload)
       IN /\ UpdateContract(MemJob(api, id), api'.memOut, MemJob(api', id),
                            updates, now)
          /\ UpdateContract(TabJob(api, id), api'.tabOut, TabJob(api', id),
                            updates, now)
          /\ \A other \in JobIds \ {id} :
               /\ api'.mem[other] = api.mem[other]
               /\ api'.tab[other] = api.tab[other]]_vars

\* create's contract for one store: before and after are what get(id) returns
\* before and after the call, out is what the call gave back
CreateContract(before, out, after, t) ==
  IF IsAbsent(before)
    THEN /\ out.kind = "job"
         /\ after = out.job
         /\ after.status = "pending"
         /\ after.createdAt = t /\ after.updatedAt = t
    ELSE out.kind = "throws" /\ after = before

\* C14: create stores a new record whose status is pending and whose
\* createdAt and updatedAt are both the time of the call; if the id is already
\* present the call fails and the existing record is left as it was, never
\* overwritten.
C14_CreateNeverOverwrites ==
  [][Calls("create") =>
       LET id == api'.call.id
       IN /\ CreateContract(MemJob(api, id), api'.memOut, MemJob(api', id), now)
          /\ CreateContract(TabJob(api, id), api'.tabOut, TabJob(api', id), now)]_vars

\* delete's contract for one store: storeBefore and storeAfter are the store's
\* contents around the call, before and after what get(id) returns around it
DeleteContract(storeBefore, before, out, storeAfter, after, id) ==
  /\ out.kind = "boolean"
  /\ out.flag = ~IsAbsent(before)
  /\ IsAbsent(after)
  /\ \A other \in JobIds \ {id} : storeAfter[other] = storeBefore[other]
  /\ IsAbsent(before) => storeAfter = storeBefore

\* C15: delete(id) removes the record, so that get(id) is not-found after
\* it; deleting an id that is not (or no longer) present raises no error,
\* reports that nothing was removed and leaves the store unchanged.
C15_DeleteIsIdempotent ==
  [][Calls("delete") =>
       LET id == api'.call.id
       IN /\ DeleteContract(api.mem, MemJob(api, id), api'.memOut,
                            api'.mem, MemJob(api', id), id)
          /\ DeleteContract(api.tab, TabJob(api, id), api'.tabOut,
                            api'.tab, TabJob(api', id), id)]_vars

\* a second delete of an id that an earlier delete removed has just returned
\* on both stores, while another record is present
C15_Witness ==
  /\ api.call.op = "delete"
  /\ api.call.id \in api.gone
  /\ api.memOut = ReturnsFlag(FALSE)
  /\ api.tabOut = ReturnsFlag(FALSE)
  /\ \E other \in JobIds : ~IsAbsent(api.mem[other]) /\ ~IsAbsent(api.tab[other])

\* C16: after any sequence of create, get, update, delete and cleanup calls
\* made alike on both backends, the last call gave the same outcome on both
\* and get returns the same job snapshot (status, progress message, progress
\* percent, result, error, timestamps) from both for every id.
C16_BackendsAgree ==
  /\ api.memOut = api.tabOut
  /\ \A id \in JobIds : MemJob(api, id) = TabJob(api, id)

\* ------------------------------------------------- properties of jobs in flight
\* job j's processor, recorder and progress writes: everything of the job
\* but its record
Process(j) ==
  <<ppc[j], pstage[j], psnap[j], caught[j], videoUrl[j], blobUrl[j], thumbUrl[j], rpc[j],
    frame[j], ready[j], acquired[j], released[j], relFailed[j], rres[j],
    raised[j], ffmpeg[j], thumbRun[j], bridge[j], owned[j]>>

\* no handle is held by two recordings
NothingShared ==
  \A a \in JobIds : \A b \in JobIds \ {a} : \A r \in Resources :
    owned[a][r] # 0 => owned[a][r] # owned[b][r]

\* a step of job a (its creation, an update, a progress write, a step of its
\* recording, a failure or the ready timeout) leaves the record of every
\* other job as it was, and with it what a poll reports for that job, which
\* HandleGetJob computes from the record and the backend alone; and a record
\* changes only in a step of its own job
OthersUntouched ==
  \A a \in Pair :
    /\ Process(a)' # Process(a) =>
         \A b \in Pair \ {a} :
           /\ jobs'[b] = jobs[b]
           /\ backend' = backend
           /\ Process(b)' = Process(b)
    /\ jobs'[a] # jobs[a] => Process(a)' # Process(a)

IsSeek(e) == e.op = "seek"
IsShot(e) == e.op = "shot"

\* the seeks and the stills of job j's recording, in the order they were done
Seeks(j) == SelectSeq(shots[j], IsSeek)
Stills(j) == SelectSeq(shots[j], IsShot)

\* recordStory has returned success for job j
Recorded(j) == rpc[j] = "returned" /\ rres[j].success

\* the i-th seek is for frame i - 1, at (i - 1) * (1000 / frameRate) ms, and the
\* i-th still is frame i - 1 under the name that reads back as i - 1
OnSchedule(j) ==
  /\ \A i \in 1..Len(Seeks(j)) :
       /\ Seeks(j)[i].frame = i - 1
       /\ Seeks(j)[i].timeMs * opts[j].frameRate = (i - 1) * 1000
  /\ \A i \in 1..Len(Stills(j)) :
       /\ Stills(j)[i].frame = i - 1
       /\ Len(Stills(j)[i].name) = 4
       /\ IndexOfName(Stills(j)[i].name) = i - 1

\* C18: a successful recording has captured exactly
\* ceil(durationMs / 1000 * frameRate) frames; frame k was seeked to
\* k * (1000 / frameRate) ms and saved under the sequential name of index k.
C18_ExactFrameCount ==
  \A j \in JobIds :
    /\ OnSchedule(j)
    /\ Recorded(j) =>
         /\ Len(Stills(j)) = ExactFrames(opts[j].duration, opts[j].frameRate)
         /\ Len(Seeks(j)) = Len(Stills(j))

\* C19: two recordings with the same duration and frame rate seek the same
\* frames to the same timestamps and, when both succeed, have captured the same
\* number of frames, whatever the clock showed when their steps ran.
C19_ScheduleIgnoresClock ==
  \A a \in JobIds : \A b \in JobIds :
    opts[a] = opts[b] =>
      /\ \A i \in 1..Len(Seeks(a)) :
           i <= Len(Seeks(b)) => Seeks(a)[i] = Seeks(b)[i]
      /\ (Recorded(a) /\ Recorded(b)) =>
           /\ Len(Seeks(a)) = Len(Seeks(b))
           /\ Len(Stills(a)) = Len(Stills(b))

\* both recordings have succeeded with the same options and several frames
\* each, the clock having run to its end meanwhile
C19_Witness ==
  /\ opts[1] = opts[2]
  /\ Recorded(1) /\ Recorded(2)
  /\ Len(Seeks(1)) >= 2 /\ Len(Seeks(2)) >= 2
  /\ now = MaxClock

\* C20: the capture is strictly sequential per recording: the seek of frame k
\* has returned before the still of frame k is taken, that still is written
\* before the seek of frame k + 1 starts, frames go in ascending order of
\* index, and one call at most (the seek or the still of the current frame) is
\* in flight.
C20_CaptureIsSequential ==
  \A j \in JobIds :
    /\ \A i \in 1..Len(shots[j]) :
         /\ shots[j][i].op = IF i % 2 = 1 THEN "seek" ELSE "shot"
         /\ shots[j][i].frame = (i - 1) \div 2
    /\ rpc[j] = "seek" => Len(shots[j]) = 2 * frame[j]
    /\ rpc[j] = "shot" => Len(shots[j]) = 2 * frame[j] + 1
    /\ rpc[j] = "reportFrame" => Len(shots[j]) = 2 * frame[j] + 2

\* two frames are seeked and saved and the seek of the third is in flight
C20_Witness ==
  /\ rpc[1] = "seek"
  /\ frame[1] = 2
  /\ Len(shots[1]) = 4

\* ------------------------------------------------- properties of the result URL
\* C21: a completed job's result URL is the local /videos/<filename> URL when
\* blob storage is not configured (uploadVideo is not called) or uploadVideo
\* returned null, and the URL uploadVideo returned when it returned one.
C21_ResultUrlFollowsUpload ==
  \A j \in JobIds :
    HandleGetJob(j).status = "completed" =>
      /\ ~BlobEnabled => blobUrl[j] = None /\ HandleGetJob(j).url = "local"
      /\ BlobEnabled /\ blobUrl[j] = "null" => HandleGetJob(j).url = "local"
      /\ BlobEnabled /\ blobUrl[j] # "null" => HandleGetJob(j).url = blobUrl[j]

\* blob storage is configured, uploadVideo returned null and the job is
\* completed with the local URL
C21_Witness ==
  /\ BlobEnabled
  /\ blobUrl[1] = "null"
  /\ HandleGetJob(1).status = "completed"
  /\ HandleGetJob(1).url = "local"

\* ---------------------------------------------- properties of failure handling
\* a step of job j's background processing has failed: an exception reached
\* processVideoJob's catch block, or recordStory returned a failure
FailureRaised(j) == caught[j] # None \/ rres[j].error # None

\* C22: every failure raised in a step of a job's background processing is
\* recorded on the job as status failed with an error message by the time the
\* processor has ended, whatever failed, the store write that records the
\* outcome included (a rejection of the processor's promise is taken by the
\* handler attached where it is spawned, after the create response is built).
C22_FailuresAreRecorded ==
  \A j \in created :
    (Finished(j) /\ FailureRaised(j)) =>
      /\ HandleGetJob(j).status = "failed"
      /\ HandleGetJob(j).error # None

\* job j's recording as the recorder holds it
Recording(j) ==
  <<rpc[j], frame[j], ready[j], acquired[j], released[j], relFailed[j],
    rres[j], raised[j], ffmpeg[j], thumbRun[j], shots[j]>>

\* a progress write of job j ends without reaching the store
WriteFails(j) == bridge'[j] # bridge[j] /\ bridge'[j] \subseteq bridge[j] /\ jobs' = jobs

\* a progress write of job j is issued
WriteIssued(j) == \E w \in bridge'[j] : w \notin bridge[j] /\ w.stage = "call"

\* C23: a progress write that fails leaves the recording (the capture loop's
\* position and the recorder's result) and the job's processor and record as
\* they were, so it cannot make the job fail; and the recorder goes on in the
\* very step in which a progress write is issued, without waiting for it.
C23_ProgressFailureIsHarmless ==
  [][\A j \in JobIds :
       /\ WriteFails(j) =>
            /\ Recording(j)' = Recording(j)
            /\ ppc'[j] = ppc[j] /\ caught'[j] = caught[j]
            /\ HandleGetJob(j)' = HandleGetJob(j)
       /\ WriteIssued(j) => rpc'[j] # rpc[j]]_vars

\* on the durable backend the recorder's first progress write has failed (the
\* stored message is still the processor's) and the recorder has gone on to
\* open its page
C23_Witness ==
  /\ backend = "azure"
  /\ rpc[1] = "newPage"
  /\ bridge[1] = {}
  /\ Get(1).progress = RecordingFields.progress

\* C24: polling a job never produces an unhandled exception: a poll of an
\* unknown id is answered with the explicit not-found response, a poll of a
\* known id with the job's snapshot, and a poll made while the store cannot
\* be reached with an error response; the handler never throws.
C24_PollNeverThrows ==
  [][(http' # http /\ http'.route = "poll")
       => /\ ~http'.thrown
          /\ \/ http'.code = 500
             \/ http'.body = HandleGetJob(http'.jobId)]_vars

\* C25: a create-video request in which any of site, slug, postType or
\* template is missing is answered with the 400 error and nothing else
\* happens: the store is unchanged, no job id is generated or returned, and
\* no background processing is started.
C25_InvalidRequestChangesNothing ==
  [][(/\ http' # http
      /\ http'.route = "create"
      /\ \E key \in Required : http'.request[key] = None)
       => /\ http'.code = 400
          /\ http'.jobId = 0
          /\ UNCHANGED <<jobs, created, procVars, recVars, bridge>>]_vars

\* a request without a template was rejected while a job was in the store
C25_Witness ==
  /\ http.route = "create"
  /\ http.code = 400
  /\ http.request["template"] = None
  /\ http.missing = {"template"}
  /\ ~IsAbsent(Get(1))

\* the updates with which processVideoJob records a job's outcome
OutcomeSites == {"updCompleted", "updFailed", "updCatch"}

\* handleCreateVideo has returned j's id
Returned(j) == ppc[j] # "idle"

\* j's processor has not yet come to an update that records an outcome
BeforeOutcome(j) ==
  Returned(j) /\ ppc[j] \notin OutcomeSites \cup {"done", "rejected"}

\* get(id) finds every job whose id was returned, and a poll made before the
\* processor comes to record an outcome shows pending or processing
FoundAndUnfinished ==
  \A j \in JobIds :
    /\ Returned(j) => HandleGetJob(j).code = 200
    /\ BeforeOutcome(j) => HandleGetJob(j).status \in {"pending", "processing"}

C27_StartIsIdempotent ==
  /\ [](sched.timers <= 1 /\ sched.immediate <= 1)
  /\ [][(sched'.starts # sched.starts /\ sched.timers > 0)
          => /\ sched' = [sched EXCEPT !.starts = @ + 1]
             /\ UNCHANGED <<sweeps, jobs>>]_vars

\* the scheduler was started twice, and its one timer has fired since
C27_Witness ==
  /\ sched.starts = 2
  /\ sched.timers = 1
  /\ sched.immediate = 1
  /\ sched.ticks > 0

\* C28: a start launches one pass at once and the timer one pass at every
\* hourly interval after it, each with the 24-hour retention window; a pass
\* that fails is logged, and neither stops the timer nor delays the passes
\* that follow.
C28_PassesRunHourly ==
  /\ [](sched.timers > 0
          => /\ sched.immediate = 1
             /\ sched.ticks * (60 * 60 * 1000) = now - sched.startedAt
             /\ \A s \in Slots :
                  sweeps[s].pc # "none"
                    => sweeps[s].maxAgeMs = 24 * 60 * 60 * 1000)
  /\ [][/\ (sched.timers = 0 /\ sched'.timers > 0)
             => \E s \in Slots : /\ sweeps[s].pc = "none"
                                 /\ sweeps'[s].origin = "start"
        /\ (sched.timers > 0 /\ now' # now)
             => \E s \in Slots : /\ sweeps[s].pc = "none"
                                 /\ sweeps'[s].origin = "timer"
        /\ sched.timers > 0 => sched'.timers = sched.timers
        /\ (\E s \in Slots : sweeps[s].pc = "ensure" /\ sweeps'[s].pc = "none")
             => sched'.failed = sched.failed + 1]_vars

\* a pass has failed, and a pass of a later interval is at work
C28_Witness ==
  /\ sched.failed = 1
  /\ sched.ticks = MaxIntervals
  /\ \E s \in Slots : /\ sweeps[s].origin = "timer"
                      /\ sweeps[s].pc = "deleting"
                      /\ sweeps[s].cutoff = now - 24 * 60 * 60 * 1000
                      /\ sweeps[s].todo # {}

\* a pass is in its delete loop and holds a row that is no longer there
MeetsRemoved(s) ==
  /\ sweeps[s].pc = "deleting"
  /\ \E j \in sweeps[s].todo : IsAbsent(jobs[j])

\* C29: cleanup passes are idempotent and safe to overlap. Passes run back
\* to back or interleaved remove only records that a single pass run at that
\* moment would remove; a pass that ends with every delete done leaves
\* nothing a pass with its cutoff would still remove; a pass never raises
\* because another pass has already removed a row it listed; and together
\* the passes count each removed record at most once.
C29_PassesMayOverlap ==
  /\ [](\A j \in JobIds : sched.reports[j] <= 1)
  /\ [][/\ \A j \in JobIds :
             (~IsAbsent(jobs[j]) /\ IsAbsent(jobs'[j]))
               => Expired(jobs[j], now' - 24 * 60 * 60 * 1000)
        /\ \A s \in Slots :
             /\ (sweeps[s].pc = "returning" /\ sweeps'[s].pc = "none"
                   /\ sweeps[s].clean)
                  => Listed(sweeps[s].cutoff) = {}
             /\ MeetsRemoved(s)
                  => sweeps'[s].pc \in {"deleting", "returning"}]_vars

\* two passes listed the same row; one has removed and counted it, the other
\* has met the 404, gone on, and ended with nothing counted
C29_Witness ==
  \E j \in JobIds :
    /\ IsAbsent(jobs[j])
    /\ sched.reports[j] = 1
    /\ sweeps[1].pc = "returning" /\ sweeps[1].deleted = 1
    /\ sweeps[2].pc = "returning" /\ sweeps[2].deleted = 0
    /\ sweeps[2].clean
    /\ sweeps[1].cutoff < sweeps[2].cutoff
    /\ created = {j}

\* the maximum C30 names: one iteration for an unbounded animation, else
\* iterationDuration x iterationCount + delay
NamedMax(a) ==
  IF a.iterations = Infinity THEN a.duration
  ELSE a.duration * a.iterations + a.delay

\* an animation with an effect whose timing is all numbers and whose time
\* can be set
Timed(a) == a.effect /\ a.seekable /\ a.duration # AutoDuration

\* C30: after seekTo(t), every paused animation's current time is
\* min(t, max), where max is iterationDuration x iterationCount + delay for
\* a finite animation and one iteration's duration for an unbounded one; no
\* animation's time is set beyond its max.
C30_SeekIsCapped ==
  \A a \in AnimIds :
    (animations.seeks > 0 /\ Timed(animations.list[a]))
      => LET anim == animations.list[a]
             t == animations.timeMs
         IN /\ anim.currentTime = (IF t <= NamedMax(anim) THEN t ELSE NamedMax(anim))
            /\ anim.currentTime <= NamedMax(anim)

\* ------------------------------------------------------------------- C31
\* the assignment of animation a's time failed in the last seekTo
SeekFailed(a) ==
  SetterThrows(animations.list[a],
               Target(animations.list[a], animations.timeMs))

\* C31: if setting the time of one animation fails during seekTo, only that
\* animation is skipped: seekTo does not raise, and every animation whose
\* assignment does not fail is at the time the script computes for it,
\* min(timeMs, maxTime), or timeMs for an animation without an effect.
C31_SeekFailureIsSkipped ==
  animations.seeks > 0 =>
    /\ ~animations.raised
    /\ \A a \in AnimIds :
         ~SeekFailed(a) =>
           animations.list[a].currentTime =
             Target(animations.list[a], animations.timeMs)

\* the first animation's assignment failed and the animation after it was
\* still moved, to a time capped by its maxTime
C31_Witness ==
  /\ animations.seeks > 0
  /\ SeekFailed(1)
  /\ ~animations.list[1].seekable
  /\ ~SeekFailed(2)
  /\ animations.timeMs = 200
  /\ animations.list[2].currentTime = 150

\* ------------------------------------------------------------------- C32
\* everything but the page's own record of its calls
hostVars ==
  <<animations, sched, sweeps, http, backend, now, jobs, created, procVars,
    recVars, bridge, cl, api, owned, opts, shots, removed, codec>>

\* a step in which job j's page calls storyReady, or storyDone
CallsReady(j) == page'[j].readyCalls > page[j].readyCalls
CallsDone(j) == page'[j].doneCalls > page[j].doneCalls

\* C32: the ready hook resolves the pending ready signal exactly once: the
\* first call resolves it, it stays resolved for the rest of the recording,
\* and a second or later call changes nothing of the recording; the done
\* hook is inert: a call of it, whenever and however often it is made,
\* changes nothing of the recording (the frames captured, the position of
\* recordStory, its result).
C32_HooksResolveOnceAndDoneIsInert ==
  [][\A j \in JobIds :
       /\ CallsReady(j) => ready'[j]
       /\ (CallsReady(j) /\ ready[j]) => UNCHANGED hostVars
       /\ CallsDone(j) => UNCHANGED hostVars
       /\ (ready[j] /\ rpc'[j] # "idle") => ready'[j]]_vars

\* a recording that has succeeded with all its frames after the page called
\* storyReady twice and storyDone twice
C32_Witness ==
  \E j \in Followed :
    /\ page[j].readyCalls = 2
    /\ page[j].doneCalls = 2
    /\ rpc[j] = "returned"
    /\ rres[j].success
    /\ Len(shots[j]) = 2 * TotalFrames(opts[j].duration, opts[j].frameRate)

\* ------------------------------------------------------------------- C33
\* recordStory has given job j's processor a result
HasResult(j) == rres[j] # Failure(None)

\* job j's processor is past its await of recordStory
PastRecorder(j) ==
  /\ HasResult(j)
  /\ rpc[j] = "idle"
  /\ ppc[j] \notin {"idle", "upd10", "prep", "upd15", "callRecorder", "record"}

\* a step in which job j's processor invokes recordStory
Invokes(j) == rpc[j] = "idle" /\ rpc'[j] # "idle"

\* a step in which an awaited update of job j's processor puts a terminal
\* status into the store and returns or throws
WritesTerminal(j) ==
  /\ ppc[j] \in OutcomeSites
  /\ ppc'[j] # ppc[j]
  /\ jobs'[j] # jobs[j]
  /\ Get(j)'.status \in Terminal

\* a step in which job j's processor gets the answer of an upload
UploadReturns(j) ==
  ppc[j] \in {"upload", "uploadThumb"} /\ ppc'[j] # ppc[j] /\ BlobEnabled

\* the order of the processor around the recorder, but for the moment of
\* the terminal write: processing is in the store when recordStory is
\* invoked, recordStory is invoked once, uploads are attempted only with a
\* successful result, and nothing is uploaded once completed is being written
OrderAroundRecorder ==
  \A j \in JobIds :
    /\ Invokes(j) =>
         /\ ppc[j] = "callRecorder"
         /\ ~HasResult(j)
         /\ Get(j).status = "processing"
    /\ UploadReturns(j) => PastRecorder(j) /\ rres[j].success
    /\ (WritesTerminal(j) /\ Get(j)'.status = "completed") =>
         /\ rres[j].success
         /\ ppc[j] = "updCompleted"
         /\ Get(j)'.result = [url |-> videoUrl[j], thumbnailUrl |-> thumbUrl[j]]
    /\ ppc[j] \in {"updCompleted", "done"} =>
         UNCHANGED <<videoUrl[j], blobUrl[j], thumbUrl[j]>>

\* C33 as stated: the processor writes status processing before it invokes
\* the recorder, invokes the recorder at most once per job, and writes the
\* terminal status only after the recorder has returned and, on success,
\* after every upload attempt has finished; no upload is attempted when the
\* recorder failed.
C33_TerminalOnlyAfterRecorder ==
  [][/\ OrderAroundRecorder
     /\ \A j \in JobIds : WritesTerminal(j) => PastRecorder(j)]_vars

\* C33, amended: as stated, except that a terminal status is also written
\* when a step before the recorder's invocation raised: then the catch block
\* writes failed and the recorder is never invoked for that job.
C33_TerminalAfterRecorderOrWithoutIt ==
  [][/\ OrderAroundRecorder
     /\ \A j \in JobIds :
          WritesTerminal(j) =>
            \/ PastRecorder(j)
            \/ /\ ppc[j] = "updCatch"
               /\ ~HasResult(j)
               /\ rpc[j] = "idle"
               /\ Get(j)'.status = "failed"]_vars

\* completed is in the store after a successful recording and two uploads
\* that returned URLs
C33_Witness ==
  \E j \in Followed :
    /\ ppc[j] = "done"
    /\ Get(j).status = "completed"
    /\ rres[j].success
    /\ Get(j).result = [url |-> "blob", thumbnailUrl |-> "blob"]

\* ------------------------------------------------------------------- C34
\* initStory has come to its end, the page still open
ScriptEnded(j) == page[j].ipc = "end"

\* C34: on every execution path of initStory where the ready hook is
\* available (normal run, missing parameters, data-fetch failure, render
\* failure, animation failure) the page calls the ready hook exactly once:
\* never twice, and once when initStory has ended; and it never calls done
\* before ready.
C34_ReadyOnceOnEveryPath ==
  \A j \in Followed :
    page[j].hooks =>
      /\ page[j].readyCalls <= 1
      /\ ScriptEnded(j) => page[j].readyCalls = 1
      /\ page[j].doneCalls > 0 => page[j].readyCalls = 1

\* initStory has ended with its animations started, ready signalled once and
\* done once, while the host is capturing
C34_Witness ==
  \E j \in Followed :
    /\ page[j].hooks
    /\ ScriptEnded(j)
    /\ page[j].started
    /\ page[j].signaled
    /\ page[j].doneCalls = 1
    /\ page[j].readyCalls = 1
    /\ rpc[j] = "shot"

\* ------------------------------------------------------------------- C35
\* a step in which job j's 30 s timer fires
Fires(j) == page'[j].fired /\ ~page[j].fired

\* a ready call made since the page was loaded has resolved readyPromise,
\* whether recordStory was already waiting or still in page.goto
ReadyKept ==
  \A j \in JobIds :
    (page[j].readyCalls > 0 /\ rpc[j] \in LoadedPcs) => ready[j]

\* C35: a ready call that arrives at any point after the hooks are
\* registered, including before the host starts waiting for it, is not lost:
\* the wait then completes without a timeout; and once ready has been
\* received, the 30-second timer, which is never cancelled, firing later
\* changes nothing of the capture loop or of the recording's result.
C35_ReadyIsNotLost ==
  /\ []ReadyKept
  /\ [][\A j \in JobIds :
          /\ (ready[j] /\ rpc[j] = "waitReady" /\ rpc'[j] # rpc[j])
               => (rpc'[j] = "fonts" /\ UNCHANGED <<rres, raised>>)
          /\ (Fires(j) /\ ready[j]) => UNCHANGED hostVars]_vars

\* the page called ready once, the timer fired after that, and the recording
\* has succeeded with all its frames
C35_Witness ==
  \E j \in Followed :
    /\ page[j].readyCalls = 1
    /\ page[j].fired
    /\ rpc[j] = "returned"
    /\ rres[j].success
    /\ Len(shots[j]) = 2 * TotalFrames(opts[j].duration, opts[j].frameRate)

\* ------------------------------------------------------------------- C36
\* where recordStory is before the control script has collected and paused
\* the page's animations
BeforeControl == {"goto", "waitReady", "fonts", "activate"}

\* a step in which job j's page starts its animations
StartsAnimations(j) == page'[j].started /\ ~page[j].started

\* C36: when the host activates animation control the page has already
\* started its animations: the page never starts them after the control
\* script has run, so every animation of the template is among those the
\* script pauses and seeks, and none advances on wall-clock time during
\* capture.
C36_AnimationsStartBeforeControl ==
  [][\A j \in Followed :
       (page[j].hooks /\ StartsAnimations(j)) => rpc[j] \in BeforeControl]_vars

\* ------------------------------------------------------------------- C37
\* job j's scratch directory has been made and not removed
DirExists(j) == "tempDir" \in acquired[j] /\ "tempDir" \notin released[j]

\* a step that writes a frame into the directory (page.screenshot), or in
\* which an encoder run reads frames from it
UsesDir(j) ==
  \/ rpc[j] = "shot" /\ shots'[j] # shots[j]
  \/ ffmpeg'[j] # ffmpeg[j]
  \/ thumbRun'[j] # thumbRun[j]

\* a step in which rm removes the directory
RemovesDir(j) == "tempDir" \in released'[j] \ released[j]

\* the directory is there whenever a frame is written or read, and it is
\* removed only when both encoder runs have ended or the recording has failed
DirOutlivesItsUse ==
  \A j \in JobIds :
    /\ UsesDir(j) => DirExists(j) /\ DirExists(j)'
    /\ RemovesDir(j) =>
         \/ rres[j].success /\ ffmpeg[j] = "ok" /\ thumbRun[j] \in {"ok", "exit"}
         \/ ~rres[j].success /\ rres[j].error # None

\* C37 as stated: the scratch directory is created before the first frame is
\* written and is removed only after both encoder invocations have finished
\* or the recording has failed; the encoder never reads a frame from a
\* directory that has been removed; and after recordStory returns the
\* directory no longer exists.
C37_DirectoryGoneOnReturn ==
  /\ [][DirOutlivesItsUse]_vars
  /\ [](\A j \in JobIds : rpc[j] = "returned" => ~DirExists(j))

\* C37, amended: as stated, except that after recordStory returns the
\* directory may still exist when its removal itself failed: the failure is
\* logged and the result is returned all the same.
C37_DirectoryGoneUnlessRemovalFailed ==
  /\ [][DirOutlivesItsUse]_vars
  /\ [](\A j \in JobIds :
          (rpc[j] = "returned" /\ DirExists(j)) => "tempDir" \in relFailed[j])

\* a recording that succeeded with a thumbnail has returned and its
\* directory has been removed
C37_Witness ==
  \E j \in Followed :
    /\ rpc[j] = "returned"
    /\ rres[j].success /\ rres[j].thumbnailPath
    /\ "tempDir" \in released[j]
    /\ ~DirExists(j)

\* ------------------------------------------------------------------- C38
\* the result of job j as get() shows it, for a completed job
CompletedResult(j) == Get(j).result

\* C38: the processor deletes a local video or thumbnail file only after the
\* upload of that file returned a URL; whenever a completed job's video URL
\* or thumbnail URL points at the local /videos/ route, the processor has
\* not deleted the file it points to; and a completed job never has an
\* external video URL together with a local thumbnail URL, or the reverse.
C38_LocalUrlsPointAtKeptFiles ==
  /\ [](\A j \in JobIds :
          Get(j).status = "completed" =>
            /\ CompletedResult(j).url = "local" => "video" \notin removed[j]
            /\ CompletedResult(j).thumbnailUrl = "local" => "thumb" \notin removed[j]
            /\ ~(CompletedResult(j).url = "blob"
                   /\ CompletedResult(j).thumbnailUrl = "local")
            /\ ~(CompletedResult(j).url = "local"
                   /\ CompletedResult(j).thumbnailUrl = "blob"))
  /\ [][\A j \in JobIds :
          /\ "video" \in removed'[j] \ removed[j] => blobUrl'[j] = "blob"
          /\ "thumb" \in removed'[j] \ removed[j] => thumbUrl'[j] = "blob"]_vars

\* completed with local URLs after an upload that returned null: both files
\* are still there
C38_Witness ==
  \E j \in Followed :
    /\ Get(j).status = "completed"
    /\ blobUrl[j] = "null"
    /\ CompletedResult(j) = [url |-> "local", thumbnailUrl |-> "local"]
    /\ removed[j] = {}

\* ------------------------------------------------------------------- C39
\* job j's record has been deleted
Deleted(j) == j \in created /\ IsAbsent(jobs[j])

Requests == {ValidBody, [ValidBody EXCEPT !.slug = "", !.template = "story"]}

Results ==
  {NoResult, [url |-> "/videos/v.mp4", thumbnailUrl |-> None],
   [url |-> "blob", thumbnailUrl |-> "thumb"]}

AnyRecords ==
  {[id |-> id, status |-> st, request |-> rq, progress |-> pr,
    progressPercent |-> pp, result |-> rs, error |-> er,
    createdAt |-> c, updatedAt |-> u] :
     id \in JobIds, st \in {"pending", "processing", "completed", "failed"},
     rq \in Requests, pr \in {None, "", "Initializing"}, pp \in {NoPct, 10},
     rs \in Results, er \in {None, "", "Unknown error"},
     c \in 0..MaxClock, u \in 0..MaxClock}

JobRecords == {r \in AnyRecords : r.createdAt <= r.updatedAt}

InitCodec ==
  /\ backend = "memory"
  /\ now = 0
  /\ jobs = EmptyStore
  /\ created = {}
  /\ ppc = [j \in JobIds |-> "idle"]
  /\ pstage = [j \in JobIds |-> "call"]
  /\ psnap = [j \in JobIds |-> Absent]
  /\ caught = [j \in JobIds |-> None]
  /\ videoUrl = [j \in JobIds |-> None]
  /\ blobUrl = [j \in JobIds |-> None]
  /\ thumbUrl = [j \in JobIds |-> None]
  /\ rpc = [j \in JobIds |-> "idle"]
  /\ frame = [j \in JobIds |-> 0]
  /\ ready = [j \in JobIds |-> FALSE]
  /\ acquired = [j \in JobIds |-> {}]
  /\ released = [j \in JobIds |-> {}]
  /\ relFailed = [j \in JobIds |-> {}]
  /\ rres = [j \in JobIds |-> Failure(None)]
  /\ raised = [j \in JobIds |-> FALSE]
  /\ ffmpeg = [j \in JobIds |-> "none"]
  /\ thumbRun = [j \in JobIds |-> "none"]
  /\ bridge = [j \in JobIds |-> {}]
  /\ cl = Idle
  /\ api = ApiIdle
  /\ codec \in {[NoCodec EXCEPT !.stage = "job", !.job = r] : r \in JobRecords}
  /\ removed = [j \in JobIds |-> {}]
  /\ page = [j \in JobIds |-> NoPage]
  /\ animations = NoAnimations
  /\ sched = NoSched
  /\ sweeps = [s \in Slots |-> NoPass]
  /\ http = NoResponse
  /\ owned = [j \in JobIds |-> NoHandles]
  /\ opts = [j \in JobIds |-> DefaultOptions]
  /\ shots = [j \in JobIds |-> <<>>]

\* jobToEntity on the record
Encode ==
  /\ codec.stage = "job"
  /\ codec' = [codec EXCEPT !.stage = "entity", !.entity = JobToEntity(codec.job)]
  /\ UNCHANGED <<removed, page, animations, sched, sweeps, http, backend, now, jobs, created, ppc, pstage, psnap, caught, videoUrl, blobUrl, thumbUrl, rpc, frame, ready, acquired, released, relFailed, rres, raised, ffmpeg, thumbRun, bridge, cl, api, owned, opts, shots>>

\* entityToJob on the entity read back
Decode ==
  /\ codec.stage = "entity"
  /\ codec' = [codec EXCEPT !.stage = "decoded", !.decoded = EntityToJob(codec.entity)]
  /\ UNCHANGED <<removed, page, animations, sched, sweeps, http, backend, now, jobs, created, ppc, pstage, psnap, caught, videoUrl, blobUrl, thumbUrl, rpc, frame, ready, acquired, released, relFailed, rres, raised, ffmpeg, thumbRun, bridge, cl, api, owned, opts, shots>>

NextCodec == Encode \/ Decode

SpecCodec == InitCodec /\ [][NextCodec]_vars

\* C40: in the durable backend, decoding the entity that encoding a job
\* produced gives back the job: id, status, request, progress, result (url and
\* optional thumbnailUrl), error, createdAt and updatedAt are those of the
\* record encoded, an absent optional field being absent again.
JobFields ==
  {"id", "status", "request", "progress", "result", "error", "createdAt",
   "updatedAt"}

C40_CodecRoundTrip ==
  codec.stage = "decoded" =>
    \A f \in JobFields : codec.decoded[f] = codec.job[f]

====
